---------------------------- MODULE Spec2Model ----------------------------
(***************************************************************************)
(* Occlusion-mask pipeline of the AR wall tile visualizer                  *)
(* (src/src/contexts/VisualizerContext.tsx, lines 284-605).                *)
(*                                                                         *)
(* Buffers are functions over 0..n-1, indexed as in the source.  Floating  *)
(* point quantities are carried in fixed point; each scale is named:       *)
(*   luma            LumaScale  units per grey level                       *)
(*   Sobel magnitude MagScale   units per grey level                       *)
(*   normalized edge NormScale  units per mask level                       *)
(*   kernel weight   KernelScale units = 1.0                               *)
(* TLC integers are 32 bits wide, so the scales are chosen to keep every   *)
(* intermediate product below 2^31.                                        *)
(***************************************************************************)
EXTENDS Integers, Sequences, FiniteSets, TLC

(***************************************************************************)
(* Bounds of the model                                                     *)
(***************************************************************************)
MaxPixels == 9         \* largest width*height of a pipeline input in Spec
MaxProbePixels == 6    \* largest mask length handed to a primitive in SpecProbe
MaxProbeSide == 3      \* largest width or height handed to dilate in SpecProbe
MaxRadius == 2         \* largest dilation radius tried in SpecProbe
MaxFillPixels == 9     \* largest width*height handed to fillClosedRegions in SpecFill
MaxCalls == 3          \* number of successive invocations in SpecSeq
SeqSide == 15          \* side of the rasters of SpecSeq
MaxWallSide == 6       \* largest width or height of the small crops of SpecWall
WallSide == 36         \* width of the large crop of SpecWall
MaxCallPixels == 15    \* largest width*height handed to fillClosedRegions in SpecFillCall
MaxOrderPixels == 9    \* largest width*height handed to the fill of SpecFillAnyOrder
MaxEdgeSide == 5       \* largest width or height of an input in SpecEdges
RingSide == 11         \* height of the masks of SpecRing; they are one pixel wider
MaxColorSide == 4      \* largest width or height of an input in SpecColor
GateWidth == 30        \* width of the strips of SpecGate
MaxGateHeight == 3     \* largest height of the strips of SpecGate
MaxHeapPixels == 4     \* largest width*height of a mask or raster in SpecHeap
MaxHeapCalls == 2      \* number of calls of the primitives in SpecHeap
MaxSourcePixels == 9   \* largest width*height of a mask in SpecFillSource

(***************************************************************************)
(* Program constants (lines 284-295)                                       *)
(***************************************************************************)
SOBEL_X_KERNEL == <<-1, 0, 1, -2, 0, 2, -1, 0, 1>>
SOBEL_Y_KERNEL == <<-1, -2, -1, 0, 0, 0, 1, 2, 1>>
EDGE_DILATION_RADIUS == 2
REGION_FILL_DILATION_RADIUS == 3
BLUR_RADIUS == 3
GAUSSIAN_SIGMA == 20          \* sigma in tenths: 2
COLOR_DISTANCE_THRESHOLD == 58
WALL_SAMPLE_BORDER == 8       \* border fraction in hundredths: 0.08

(***************************************************************************)
(* Number representation                                                   *)
(***************************************************************************)
LumaScale == 10000
MagScale == 32
NormScale == 100
KernelScale == 2048
ExpScale == 100000
ExpTerms == 24
Undefined == -1        \* the value of a read outside a typed array

Max(a, b) == IF a >= b THEN a ELSE b
Min(a, b) == IF a <= b THEN a ELSE b
Abs(a) == IF a < 0 THEN -a ELSE a

\* clamp, lines 603-605
clamp(value, min, max) == Min(max, Max(min, value))

\* Math.sqrt on a non-negative integer, rounded down
RECURSIVE SqrtBisect(_, _, _)
SqrtBisect(n, lo, hi) ==
  IF hi - lo <= 1 THEN lo
  ELSE LET mid == (lo + hi) \div 2
       IN IF mid * mid <= n THEN SqrtBisect(n, mid, hi) ELSE SqrtBisect(n, lo, mid)
ISqrt(n) == SqrtBisect(n, 0, 46341)

\* Math.round of the non-negative quotient num / den (halves round up)
RoundDiv(num, den) ==
  IF 2 * (num % den) >= den THEN (num \div den) + 1 ELSE num \div den

\* Fault: the store of an Int8Array element, which wraps instead of clamping
ToInt8(v) == IF v = Undefined THEN 0 ELSE ((v + 128) % 256) - 128

\* A store into a Uint8ClampedArray element
ToUint8Clamp(v) == IF v = Undefined THEN 0 ELSE clamp(v, 0, 255)

\* The array holding the values of f (its elements computed once, when it is filled)
Buffer(f) == f @@ << >>

\* new Uint8ClampedArray(n), new Uint8Array(n), new Uint32Array(n), new Float32Array(n)
Zeros(n) == Buffer([i \in 0 .. n - 1 |-> 0])

\* buf.length
Length(buf) == Cardinality(DOMAIN buf)

\* buf[i] of a typed array of the given length: undefined outside 0..length-1
Read(buf, length, i) == IF i >= 0 /\ i < length THEN buf[i] ELSE Undefined

\* The sum of f[lo] .. f[hi] that a loop accumulates (summed by halves)
RECURSIVE SumFn(_, _, _)
SumFn(f, lo, hi) ==
  IF lo > hi THEN 0
  ELSE IF lo = hi THEN f[lo]
  ELSE LET mid == (lo + hi) \div 2
       IN SumFn(f, lo, mid) + SumFn(f, mid + 1, hi)

\* The largest of 0 and f[lo] .. f[hi], as a loop keeping a running maximum finds it
RECURSIVE MaxFn(_, _, _)
MaxFn(f, lo, hi) ==
  IF lo > hi THEN 0
  ELSE IF lo = hi THEN Max(0, f[lo])
  ELSE LET mid == (lo + hi) \div 2
       IN Max(MaxFn(f, lo, mid), MaxFn(f, mid + 1, hi))

(***************************************************************************)
(* dilate, lines 459-492                                                   *)
(***************************************************************************)
\* Fault: the inner loop stopping at the first value above zero
RECURSIVE DilateRowStopsOnHit(_, _, _, _, _, _, _, _)
DilateRowStopsOnHit(source, length, width, radius, x, sampleY, kx, maxValue) ==
  IF kx > radius \/ maxValue # 0 THEN maxValue
  ELSE LET sampleX == clamp(x + kx, 0, width - 1)
           value == Read(source, length, sampleY * width + sampleX)
       IN DilateRowStopsOnHit(source, length, width, radius, x, sampleY, kx + 1,
                              IF value > maxValue THEN value ELSE maxValue)

\* The inner loop over kx of one neighbourhood row (lines 474-483); it stops
\* once maxValue is 255.
RECURSIVE DilateRow(_, _, _, _, _, _, _, _)
DilateRow(source, length, width, radius, x, sampleY, kx, maxValue) ==
  IF kx > radius \/ maxValue = 255 THEN maxValue
  ELSE LET sampleX == clamp(x + kx, 0, width - 1)
           value == Read(source, length, sampleY * width + sampleX)
       IN DilateRow(source, length, width, radius, x, sampleY, kx + 1,
                    IF value > maxValue THEN value ELSE maxValue)

\* The outer loop over ky (lines 472-487); it stops once maxValue is 255.
RECURSIVE DilateScan(_, _, _, _, _, _, _, _, _)
DilateScan(source, length, width, height, radius, x, y, ky, maxValue) ==
  IF ky > radius \/ maxValue = 255 THEN maxValue
  ELSE LET sampleY == clamp(y + ky, 0, height - 1)
           rowMax == DilateRow(source, length, width, radius, x, sampleY,
                               -radius, maxValue)
       IN DilateScan(source, length, width, height, radius, x, y, ky + 1, rowMax)

\* Fault: radius 0 returning a fresh, zeroed buffer instead of a copy
DilateCleared(source, width, height, radius) == Zeros(Length(source))

\* lines 465-467: source.slice()
DilateCopy(source, width, height, radius) == source

\* Fault: the neighbourhood scan skipping the pixel itself (kx = 0, ky = 0)
DilateNeighbours(source, width, height, radius) ==
  LET length == Length(source)
  IN Buffer([i \in 0 .. length - 1 |->
       IF width <= 0 \/ i >= width * height THEN 0
       ELSE ToUint8Clamp(DilateScan([source EXCEPT ![i] = 0], length, width, height,
                                    radius, i % width, i \div width, -radius, 0))])

\* lines 468-491: result has source.length elements; the loops write the
\* elements y * width + x with x < width and y < height
DilateLoops(source, width, height, radius) ==
  LET length == Length(source)
  IN Buffer([i \in 0 .. length - 1 |->
       IF width <= 0 \/ i >= width * height THEN 0
       ELSE ToUint8Clamp(DilateScan(source, length, width, height, radius,
                                    i % width, i \div width, -radius, 0))])

dilate(source, width, height, radius) ==
  IF radius <= 0 THEN DilateCopy(source, width, height, radius)
  ELSE DilateLoops(source, width, height, radius)

(***************************************************************************)
(* buildGaussianKernel, lines 535-549                                      *)
(***************************************************************************)
\* Math.exp(-num/den) in units of 1/ExpScale, by the alternating power
\* series t0 - (t1 - (t2 - ...)), t(n) = t(n-1) * (num/den) / n
RECURSIVE ExpSeries(_, _, _, _)
ExpSeries(num, den, term, n) ==
  IF term = 0 \/ n > ExpTerms THEN 0
  ELSE term - ExpSeries(num, den, (term * num) \div (den * n), n + 1)
ExpNeg(num, den) == ExpSeries(num, den, ExpScale, 1)

\* lines 538-544: value = exp(-(i*i) / sigmaSq), sigma given in tenths
KernelValues(radius, sigma) ==
  Buffer([k \in 0 .. 2 * radius |->
     ExpNeg(100 * (k - radius) * (k - radius), 2 * sigma * sigma)])

\* lines 545-547: kernel[i] /= total.  The weights are rounded down to
\* 1/KernelScale and the centre weight takes the remainder, so that they
\* sum to one as the floating point weights do.
NormalizeKernel(values, radius) ==
  LET total == SumFn(values, 0, 2 * radius)
      low == Buffer([k \in 0 .. 2 * radius |-> (values[k] * KernelScale) \div total])
      rest == KernelScale - SumFn(low, 0, 2 * radius)
  IN Buffer([k \in 0 .. 2 * radius |-> IF k = radius THEN low[k] + rest ELSE low[k]])

buildGaussianKernel(radius, sigma) ==
  NormalizeKernel(KernelValues(radius, sigma), radius)

(***************************************************************************)
(* gaussianBlur, lines 494-533                                             *)
(***************************************************************************)
\* Fault: a horizontal pass that reads 0 beyond the left and right borders
\* instead of repeating the border pixel
BlurHorizontalPadded(source, width, height, radius, kernel) ==
  Buffer([i \in 0 .. width * height - 1 |->
     LET x == i % width
         y == i \div width
     IN SumFn([k \in 0 .. 2 * radius |->
                 IF x + k - radius < 0 \/ x + k - radius > width - 1 THEN 0
                 ELSE source[y * width + x + k - radius] * kernel[k]],
              0, 2 * radius)])

\* Horizontal pass, lines 509-518 (temp is in units of 1/KernelScale)
BlurHorizontal(source, width, height, radius, kernel) ==
  Buffer([i \in 0 .. width * height - 1 |->
     LET x == i % width
         y == i \div width
     IN SumFn([k \in 0 .. 2 * radius |->
                 source[y * width + clamp(x + k - radius, 0, width - 1)] * kernel[k]],
              0, 2 * radius)])

\* Vertical pass, lines 521-530: result = Math.round(sum)
BlurVertical(temp, width, height, radius, kernel) ==
  Buffer([i \in 0 .. width * height - 1 |->
     LET x == i % width
         y == i \div width
     IN ToUint8Clamp(RoundDiv(
          SumFn([k \in 0 .. 2 * radius |->
                   temp[clamp(y + k - radius, 0, height - 1) * width + x] * kernel[k]],
                0, 2 * radius),
          KernelScale * KernelScale))])

gaussianBlur(source, width, height, radius, sigma) ==
  IF radius <= 0 THEN source
  ELSE LET kernel == buildGaussianKernel(radius, sigma)
           temp == BlurHorizontal(source, width, height, radius, kernel)
       IN BlurVertical(temp, width, height, radius, kernel)

(***************************************************************************)
(* fillClosedRegions, lines 551-601                                        *)
(* The locals are the record [visited, queue, head, tail].                 *)
(***************************************************************************)
\* Fault: an enqueue that marks the pixel visited but never queues it
enqueueUnqueued(st, source, width, height, x, y) ==
  IF x < 0 \/ x >= width \/ y < 0 \/ y >= height THEN st
  ELSE LET idx == y * width + x
       IN IF st.visited[idx] # 0 \/ source[idx] # 0 THEN st
          ELSE [st EXCEPT !.visited[idx] = 1]

\* Fault: an enqueue that queues the pixel without marking it visited
enqueueUnmarked(st, source, width, height, x, y) ==
  IF x < 0 \/ x >= width \/ y < 0 \/ y >= height THEN st
  ELSE LET idx == y * width + x
       IN IF st.visited[idx] # 0 \/ source[idx] # 0 THEN st
          ELSE [st EXCEPT !.queue[st.tail] = idx, !.tail = st.tail + 1]

\* Fault: an enqueue that drops the pixel when two entries are waiting
enqueueShortQueue(st, source, width, height, x, y) ==
  IF x < 0 \/ x >= width \/ y < 0 \/ y >= height THEN st
  ELSE LET idx == y * width + x
       IN IF st.visited[idx] # 0 \/ source[idx] # 0 \/ st.tail - st.head >= 2 THEN st
          ELSE [st EXCEPT !.visited[idx] = 1, !.queue[st.tail] = idx, !.tail = st.tail + 1]

\* enqueue, lines 562-573
enqueue(st, source, width, height, x, y) ==
  IF x < 0 \/ x >= width \/ y < 0 \/ y >= height THEN st
  ELSE LET idx == y * width + x
       IN IF st.visited[idx] # 0 \/ source[idx] # 0 THEN st
          ELSE [st EXCEPT !.visited[idx] = 1, !.queue[st.tail] = idx, !.tail = st.tail + 1]

\* lines 576-577: the body of the seeding loop over x
SeedColumn(st, source, width, height, x) ==
  enqueue(enqueue(st, source, width, height, x, 0), source, width, height, x, height - 1)

\* lines 580-581: the body of the seeding loop over y
SeedRow(st, source, width, height, y) ==
  enqueue(enqueue(st, source, width, height, 0, y), source, width, height, width - 1, y)

\* Fault: a loop body that does not advance head
VisitWithoutAdvance(st, source, width, height) ==
  LET idx == st.queue[st.head]
      x == idx % width
      y == idx \div width
      a == enqueue(st, source, width, height, x - 1, y)
      b == enqueue(a, source, width, height, x + 1, y)
      c == enqueue(b, source, width, height, x, y - 1)
  IN enqueue(c, source, width, height, x, y + 1)

\* Fault: a loop body that offers the diagonal neighbours too
VisitDiagonals(st, source, width, height) ==
  LET idx == st.queue[st.head]
      x == idx % width
      y == idx \div width
      a == enqueue([st EXCEPT !.head = st.head + 1], source, width, height, x - 1, y)
      b == enqueue(a, source, width, height, x + 1, y)
      c == enqueue(b, source, width, height, x, y - 1)
      d == enqueue(c, source, width, height, x, y + 1)
      e == enqueue(d, source, width, height, x - 1, y - 1)
      f == enqueue(e, source, width, height, x + 1, y - 1)
      g == enqueue(f, source, width, height, x - 1, y + 1)
  IN enqueue(g, source, width, height, x + 1, y + 1)

\* Fault: a loop body that offers only the left neighbour
VisitLeftOnly(st, source, width, height) ==
  LET idx == st.queue[st.head]
      x == idx % width
      y == idx \div width
  IN enqueue([st EXCEPT !.head = st.head + 1], source, width, height, x - 1, y)

\* lines 585-593: the body of the while loop
Visit(st, source, width, height) ==
  LET idx == st.queue[st.head]
      x == idx % width
      y == idx \div width
      a == enqueue([st EXCEPT !.head = st.head + 1], source, width, height, x - 1, y)
      b == enqueue(a, source, width, height, x + 1, y)
      c == enqueue(b, source, width, height, x, y - 1)
  IN enqueue(c, source, width, height, x, y + 1)

\* The locals st are at hand: true of every st.  An operator argument is
\* evaluated when it is first used, so a loop composed of two halves tests
\* this on the result of the first half before it starts the second.
Reached(st) == st.head <= st.tail

\* lines 575-578: the iterations x = lo .. hi in order (composed by halves)
RECURSIVE SeedColumns(_, _, _, _, _, _)
SeedColumns(st, source, width, height, lo, hi) ==
  IF lo > hi THEN st
  ELSE IF lo = hi THEN SeedColumn(st, source, width, height, lo)
  ELSE LET mid == (lo + hi) \div 2
           half == SeedColumns(st, source, width, height, lo, mid)
       IN IF Reached(half) THEN SeedColumns(half, source, width, height, mid + 1, hi)
          ELSE half

\* lines 579-582: the iterations y = lo .. hi in order (composed by halves)
RECURSIVE SeedRows(_, _, _, _, _, _)
SeedRows(st, source, width, height, lo, hi) ==
  IF lo > hi THEN st
  ELSE IF lo = hi THEN SeedRow(st, source, width, height, lo)
  ELSE LET mid == (lo + hi) \div 2
           half == SeedRows(st, source, width, height, lo, mid)
       IN IF Reached(half) THEN SeedRows(half, source, width, height, mid + 1, hi)
          ELSE half

\* lines 584-594: the while loop, cut after n iterations (composed by halves)
RECURSIVE Drain(_, _, _, _, _)
Drain(st, source, width, height, n) ==
  IF n <= 0 \/ ~(st.head < st.tail) THEN st
  ELSE IF n = 1 THEN Visit(st, source, width, height)
  ELSE LET half == Drain(st, source, width, height, n \div 2)
       IN IF half.head < half.tail
          THEN Drain(half, source, width, height, n - n \div 2)
          ELSE half

\* Fault: the two output values exchanged
FillOutputInverted(vis, total) ==
  Buffer([i \in 0 .. total - 1 |-> IF vis[i] # 0 THEN 255 ELSE 0])

\* lines 596-600: output[i] = visited[i] ? 0 : 255
FillOutput(vis, total) ==
  Buffer([i \in 0 .. total - 1 |-> IF vis[i] # 0 THEN 0 ELSE 255])

\* lines 556-594 on the given fresh buffers: the locals when the while loop
\* has ended.  The queue has total entries, so the loop ends within total
\* iterations once tail has stopped growing.
FillRun(freshVisited, freshQueue, source, width, height) ==
  LET total == width * height
      st0 == [visited |-> freshVisited, queue |-> freshQueue, head |-> 0, tail |-> 0]
      st1 == SeedColumns(st0, source, width, height, 0, width - 1)
      st2 == IF Reached(st1) THEN SeedRows(st1, source, width, height, 0, height - 1)
             ELSE st1
  IN Drain(st2, source, width, height, total)

(***************************************************************************)
(* estimateWallColor, lines 300-322                                        *)
(***************************************************************************)
\* line 301: Math.max(1, Math.floor(Math.min(width, height) * WALL_SAMPLE_BORDER))
SampleBorder(width, height) ==
  Max(1, (Min(width, height) * WALL_SAMPLE_BORDER) \div 100)

\* lines 303 and 310: the stride Math.max(1, (extent - 2 * border) >> 4)
SampleStride(extent, border) == Max(1, (extent - 2 * border) \div 16)

\* The values the loop variable takes: border, border + stride, ... below extent - border
SamplePositions(extent, border) ==
  LET stride == SampleStride(extent, border)
      count == IF extent - border <= border THEN 0
               ELSE ((extent - 2 * border - 1) \div stride) + 1
  IN [n \in 1 .. count |-> border + (n - 1) * stride]

\* lines 303-316: the pixel positions <<x, y>> in the order they are sampled
SamplePoints(width, height) ==
  LET border == SampleBorder(width, height)
      ys == SamplePositions(height, border)
      xs == SamplePositions(width, border)
      alongY == [n \in 1 .. 2 * Len(ys) |->
                   <<IF n % 2 = 1 THEN border ELSE width - 1 - border, ys[(n + 1) \div 2]>>]
      alongX == [n \in 1 .. 2 * Len(xs) |->
                   <<xs[(n + 1) \div 2], IF n % 2 = 1 THEN border ELSE height - 1 - border>>]
  IN alongY \o alongX

\* lines 306-307 and 313-314: [data[i], data[i + 1], data[i + 2]]
SampleAt(data, length, width, point) ==
  LET i == (point[2] * width + point[1]) * 4
  IN <<Read(data, length, i), Read(data, length, i + 1), Read(data, length, i + 2)>>

SampleDefined(s) == s[1] # Undefined /\ s[2] # Undefined /\ s[3] # Undefined

\* line 319: the comparator is negative, i.e. a sorts before b (NaN is not negative)
Darker(a, b) ==
  SampleDefined(a) /\ SampleDefined(b) /\ a[1] + a[2] + a[3] < b[1] + b[2] + b[3]

\* line 319: samples.sort(...) is stable; sample j ends at the position counting
\* the samples that sort before it
SortedPosition(samples, j) ==
  1 + Cardinality({i \in 1 .. Len(samples) :
                     Darker(samples[i], samples[j])
                     \/ (i < j /\ ~Darker(samples[j], samples[i]))})

SortByBrightness(samples) ==
  [p \in 1 .. Len(samples) |->
     samples[CHOOSE j \in 1 .. Len(samples) : SortedPosition(samples, j) = p]]

\* line 318: samples.length >> 1 (as a 1-based position)
MedianIndex(samples) == (Len(samples) \div 2) + 1

\* Fault: the mean of the samples, channel by channel, in place of the median
estimateWallColorMean(data, width, height) ==
  LET length == Length(data)
      points == SamplePoints(width, height)
      samples == Buffer([n \in 1 .. Len(points) |->
                           SampleAt(data, length, width, points[n])])
  IN IF Len(samples) = 0 THEN <<128, 128, 128>>
     ELSE [c \in 1 .. 3 |->
             SumFn([n \in 1 .. Len(samples) |-> samples[n][c]], 1, Len(samples))
               \div Len(samples)]

estimateWallColor(data, width, height) ==
  LET length == Length(data)
      points == SamplePoints(width, height)
      samples == Buffer([n \in 1 .. Len(points) |->
                           SampleAt(data, length, width, points[n])])
  IN IF Len(samples) = 0 THEN <<128, 128, 128>>
     ELSE SortByBrightness(samples)[MedianIndex(samples)]

(***************************************************************************)
(* buildColorDistanceMask, lines 328-344                                   *)
(***************************************************************************)
\* Fault: the comparison of line 341 made strict
FarFromWallStrict(r, g, b, wall) ==
  /\ SampleDefined(wall)
  /\ ISqrt((r - wall[1]) * (r - wall[1]) + (g - wall[2]) * (g - wall[2])
           + (b - wall[3]) * (b - wall[3])) > COLOR_DISTANCE_THRESHOLD

\* lines 337-341: dist >= COLOR_DISTANCE_THRESHOLD; an undefined wall colour
\* makes dist NaN, which compares false
FarFromWall(r, g, b, wall) ==
  /\ SampleDefined(wall)
  /\ ISqrt((r - wall[1]) * (r - wall[1]) + (g - wall[2]) * (g - wall[2])
           + (b - wall[3]) * (b - wall[3])) >= COLOR_DISTANCE_THRESHOLD

buildColorDistanceMask(data, width, height, pixelCount) ==
  LET wall == estimateWallColor(data, width, height)
  IN Buffer([i \in 0 .. pixelCount - 1 |->
       ToUint8Clamp(IF FarFromWall(data[4 * i], data[4 * i + 1], data[4 * i + 2], wall)
                    THEN 255 ELSE 0)])

(***************************************************************************)
(* buildOcclusionMask, lines 352-457: the stages                           *)
(***************************************************************************)
\* Fault: an ImageData built with its width and height exchanged
ImageDataTransposed(data, width, height) ==
  [width |-> height, height |-> width, data |-> data]

\* new ImageData(width, height) and new ImageData(data, width, height)
ImageData(data, width, height) == [width |-> width, height |-> height, data |-> data]
EmptyImageData(width, height) == ImageData(Zeros(width * height * 4), width, height)

\* Fault: a 1 x 1 raster returned whatever the non-zero dimension is
DegenerateUnit(width, height) == [width |-> 1, height |-> 1, data |-> Zeros(4)]

\* lines 354-356: the raster returned for a zero width or height
DegenerateResult(width, height) ==
  EmptyImageData(IF width = 0 THEN 1 ELSE width, IF height = 0 THEN 1 ELSE height)

\* lines 366-372, in units of 1/LumaScale
Grayscale(data, pixelCount) ==
  Buffer([i \in 0 .. pixelCount - 1 |->
       2126 * data[4 * i] + 7152 * data[4 * i + 1] + 722 * data[4 * i + 2]])

\* lines 378-390: gx (kernel = SOBEL_X_KERNEL) or gy (SOBEL_Y_KERNEL) at x, y
SobelSum(gray, width, x, y, kernel) ==
  SumFn([n \in 1 .. 9 |->
           gray[(y + ((n - 1) \div 3) - 1) * width + (x + ((n - 1) % 3) - 1)] * kernel[n]],
        1, 9)

\* line 391: Math.hypot(gx, gy), in units of 1/MagScale
Hypot(gx, gy) ==
  LET ax == (Abs(gx) * MagScale) \div LumaScale
      ay == (Abs(gy) * MagScale) \div LumaScale
  IN ISqrt(ax * ax + ay * ay)

\* Fault: the gradient taken at every pixel, the 3 x 3 neighbourhood clamped
\* to the raster edge as dilate and gaussianBlur clamp theirs
SobelMagnitudeClamped(gray, width, height, pixelCount) ==
  Buffer([i \in 0 .. pixelCount - 1 |->
       LET x == i % width
           y == i \div width
           sum(kernel) ==
             SumFn([n \in 1 .. 9 |->
                      gray[clamp(y + ((n - 1) \div 3) - 1, 0, height - 1) * width
                           + clamp(x + ((n - 1) % 3) - 1, 0, width - 1)] * kernel[n]],
                   1, 9)
       IN Hypot(sum(SOBEL_X_KERNEL), sum(SOBEL_Y_KERNEL))])

\* lines 374-398: zero outside the loops' range 1 <= x < width - 1, 1 <= y < height - 1
SobelMagnitude(gray, width, height, pixelCount) ==
  Buffer([i \in 0 .. pixelCount - 1 |->
       LET x == i % width
           y == i \div width
       IN IF x >= 1 /\ x < width - 1 /\ y >= 1 /\ y < height - 1
          THEN Hypot(SobelSum(gray, width, x, y, SOBEL_X_KERNEL),
                     SobelSum(gray, width, x, y, SOBEL_Y_KERNEL))
          ELSE 0])

\* Fault: the quotient left on the scale 0..1, without the factor 255 of line 404
NormalizedEdgesUnit(magnitude, maxMag, pixelCount) ==
  Buffer([i \in 0 .. pixelCount - 1 |->
       IF maxMag > 0 THEN (magnitude[i] * NormScale) \div maxMag ELSE 0])

\* Fault: inverseMax computed without the test of line 401, so that a zero
\* maximum gives 0 * Infinity = NaN at every pixel
NormalizedEdgesUnguarded(magnitude, maxMag, pixelCount) ==
  Buffer([i \in 0 .. pixelCount - 1 |->
       IF maxMag > 0 THEN (magnitude[i] * 255 * NormScale) \div maxMag ELSE Undefined])

\* lines 400-407: sobelMagnitude[i] * inverseMax * 255, in units of 1/NormScale
NormalizedEdges(magnitude, maxMag, pixelCount) ==
  Buffer([i \in 0 .. pixelCount - 1 |->
       IF maxMag > 0 THEN (magnitude[i] * 255 * NormScale) \div maxMag ELSE 0])

\* lines 402-408
Mean(normalized, pixelCount) == SumFn(normalized, 0, pixelCount - 1) \div pixelCount

\* lines 409-414: Math.sqrt(variance / pixelCount); the division is taken term by term
StdDev(normalized, pixelCount) ==
  LET mean == Mean(normalized, pixelCount)
      squares == [i \in 0 .. pixelCount - 1 |->
                    ((normalized[i] - mean) * (normalized[i] - mean)) \div pixelCount]
  IN ISqrt(SumFn(squares, 0, pixelCount - 1))

\* Fault: the threshold left unclamped
ThresholdUnclamped(normalized, pixelCount) ==
  Mean(normalized, pixelCount) + StdDev(normalized, pixelCount)

\* line 415
Threshold(normalized, pixelCount) ==
  clamp(Mean(normalized, pixelCount) + StdDev(normalized, pixelCount),
        35 * NormScale, 180 * NormScale)

\* Fault: the threshold comparison inverted
BinaryEdgesInverted(normalized, thresholdValue, pixelCount) ==
  Buffer([i \in 0 .. pixelCount - 1 |->
       ToUint8Clamp(IF normalized[i] >= thresholdValue THEN 0 ELSE 255)])

\* lines 417-420
BinaryEdges(normalized, thresholdValue, pixelCount) ==
  Buffer([i \in 0 .. pixelCount - 1 |->
       ToUint8Clamp(IF normalized[i] >= thresholdValue THEN 255 ELSE 0)])

\* lines 425-428
MaskSource(sealed, filled, pixelCount) ==
  Buffer([i \in 0 .. pixelCount - 1 |-> ToUint8Clamp(Max(sealed[i], filled[i]))])

\* Fault: the quotient truncated instead of rounded
ColorInRegionTruncated(color, gate) == (color * gate) \div 255

\* line 440-441: Math.round((colorBlurred[i] * objectRegionSoft[i]) / 255)
ColorInRegion(color, gate) == RoundDiv(color * gate, 255)

\* Fault: the two contributions added instead of the larger one taken
CombineAdds(edge, color, gate, pixelCount) ==
  Buffer([i \in 0 .. pixelCount - 1 |->
       ToUint8Clamp(edge[i] + ColorInRegion(color[i], gate[i]))])

\* Fault: the colour mask taken without the object-region gate
CombineUngated(edge, color, gate, pixelCount) ==
  Buffer([i \in 0 .. pixelCount - 1 |-> ToUint8Clamp(Max(edge[i], color[i]))])

\* lines 438-442
Combine(edge, color, gate, pixelCount) ==
  Buffer([i \in 0 .. pixelCount - 1 |->
       ToUint8Clamp(Max(edge[i], ColorInRegion(color[i], gate[i])))])

\* line 447-448: Math.round(Math.pow(v / 255, MASK_GAMMA) * 255) for v = 0 .. 255
GammaTable == <<
      0,   5,   9,  11,  14,  16,  18,  21,  23,  25,  26,  28,  30,  32,  33,  35,
     37,  38,  40,  41,  43,  44,  46,  47,  49,  50,  52,  53,  54,  56,  57,  58,
     60,  61,  62,  64,  65,  66,  67,  69,  70,  71,  72,  73,  75,  76,  77,  78,
     79,  80,  82,  83,  84,  85,  86,  87,  88,  89,  90,  92,  93,  94,  95,  96,
     97,  98,  99, 100, 101, 102, 103, 104, 105, 106, 107, 108, 109, 110, 111, 112,
    113, 114, 115, 116, 117, 118, 119, 120, 121, 122, 123, 124, 125, 126, 127, 128,
    129, 130, 131, 131, 132, 133, 134, 135, 136, 137, 138, 139, 140, 141, 142, 142,
    143, 144, 145, 146, 147, 148, 149, 150, 150, 151, 152, 153, 154, 155, 156, 157,
    157, 158, 159, 160, 161, 162, 163, 163, 164, 165, 166, 167, 168, 168, 169, 170,
    171, 172, 173, 173, 174, 175, 176, 177, 178, 178, 179, 180, 181, 182, 182, 183,
    184, 185, 186, 186, 187, 188, 189, 190, 190, 191, 192, 193, 194, 194, 195, 196,
    197, 197, 198, 199, 200, 201, 201, 202, 203, 204, 204, 205, 206, 207, 208, 208,
    209, 210, 211, 211, 212, 213, 214, 214, 215, 216, 217, 217, 218, 219, 220, 220,
    221, 222, 223, 223, 224, 225, 226, 226, 227, 228, 228, 229, 230, 231, 231, 232,
    233, 234, 234, 235, 236, 237, 237, 238, 239, 239, 240, 241, 242, 242, 243, 244,
    244, 245, 246, 247, 247, 248, 249, 249, 250, 251, 251, 252, 253, 254, 254, 255 >>

\* lines 446-448
Boost(v) == Max(0, Min(255, GammaTable[v + 1]))

\* Fault: the value is written to the alpha channel only
OutputAlphaOnly(mask, pixelCount) ==
  Buffer([j \in 0 .. 4 * pixelCount - 1 |->
       IF j % 4 = 3 THEN ToUint8Clamp(Boost(mask[j \div 4])) ELSE 0])

\* lines 444-454: the value is written to the four channels of the pixel
Output(mask, pixelCount) ==
  Buffer([j \in 0 .. 4 * pixelCount - 1 |-> ToUint8Clamp(Boost(mask[j \div 4]))])

(***************************************************************************)
(* State                                                                   *)
(*   pc                       position of the invocation in progress       *)
(*   width, height, data      the ImageData argument of buildOcclusionMask *)
(*   colorMask .. combined    the locals of buildOcclusionMask             *)
(*   visited, queue, head, tail, cursor   the locals of fillClosedRegions  *)
(*                            (cursor is the loop variable x, then y, of   *)
(*                            the seeding loops)                           *)
(*   result                   the ImageData returned                       *)
(*   calls, first             number of invocations begun, and the         *)
(*                            argument and result of the first one         *)
(*   effect                   the caller: the effect of TilePreview that   *)
(*                            builds the occlusion texture                 *)
(*   probe                    a direct call of dilate, gaussianBlur or     *)
(*                            estimateWallColor                            *)
(***************************************************************************)
VARIABLES pc, width, height, data,
          colorMask, colorDilated, colorBlurred,
          grayscale, sobelMagnitude, maxMagnitude, normalizedEdges, threshold,
          binaryEdges, sealedEdges,
          visited, queue, head, tail, cursor,
          filledRegions, maskSource, edgeDilated, edgeBlurred,
          objectRegionDilated, objectRegionSoft, combined, result,
          calls, first, effect, probe

input == <<width, height, data>>
colorVars == <<colorMask, colorDilated, colorBlurred>>
edgeVars == <<grayscale, sobelMagnitude, maxMagnitude, normalizedEdges, threshold,
              binaryEdges, sealedEdges>>
fillVars == <<visited, queue, head, tail, cursor, filledRegions>>
fuseVars == <<maskSource, edgeDilated, edgeBlurred, objectRegionDilated,
              objectRegionSoft, combined>>
callVars == <<calls, first, effect>>
vars == <<pc, input, colorVars, edgeVars, fillVars, fuseVars, result, callVars, probe>>

None == << >>
pixelCount == width * height

(***************************************************************************)
(* Inputs: a raster of background colour with a rectangle of foreground    *)
(* colour, over a palette of wall grey, dark red and a light shade.        *)
(***************************************************************************)
Wall == <<230, 230, 230, 255>>
Object == <<180, 30, 30, 255>>
Shade == <<200, 200, 200, 128>>
Palette == {Wall, Object, Shade}
Backgrounds == {Wall, Shade}

\* The RGBA bytes of a width x height raster: fg inside the rectangle
\* x0..x1 by y0..y1, bg outside
Raster(w, h, bg, fg, x0, x1, y0, y1) ==
  [j \in 0 .. 4 * w * h - 1 |->
     LET x == (j \div 4) % w
         y == (j \div 4) \div w
     IN IF x >= x0 /\ x <= x1 /\ y >= y0 /\ y <= y1
        THEN fg[(j % 4) + 1] ELSE bg[(j % 4) + 1]]

Dims(maxPixels) ==
  {d \in (0 .. maxPixels) \X (0 .. maxPixels) : d[1] * d[2] <= maxPixels}

Rasters(w, h) ==
  IF w = 0 \/ h = 0 THEN {None}
  ELSE {Raster(w, h, bg, fg, x0, x1, y0, y1) :
          bg \in Backgrounds, fg \in Palette,
          x0 \in 0 .. w - 1, x1 \in 0 .. w - 1, y0 \in 0 .. h - 1, y1 \in 0 .. h - 1}

Fresh ==
  /\ colorMask = None /\ colorDilated = None /\ colorBlurred = None
  /\ grayscale = None /\ sobelMagnitude = None /\ maxMagnitude = 0
  /\ normalizedEdges = None /\ threshold = 0
  /\ binaryEdges = None /\ sealedEdges = None
  /\ visited = None /\ queue = None /\ head = 0 /\ tail = 0 /\ cursor = 0
  /\ filledRegions = None /\ maskSource = None /\ edgeDilated = None
  /\ edgeBlurred = None /\ objectRegionDilated = None /\ objectRegionSoft = None
  /\ combined = None /\ result = None

Init ==
  /\ pc = "start"
  /\ \E d \in Dims(MaxPixels) :
       /\ width = d[1]
       /\ height = d[2]
       /\ data \in Rasters(d[1], d[2])
  /\ Fresh
  /\ calls = 1 /\ first = None /\ effect = None /\ probe = None

(***************************************************************************)
(* buildOcclusionMask, one action per stage                                *)
(***************************************************************************)
\* lines 353-356
DegenerateReturn ==
  /\ pc = "start"
  /\ width = 0 \/ height = 0
  /\ result' = DegenerateResult(width, height)
  /\ pc' = "done"
  /\ UNCHANGED <<input, colorVars, edgeVars, fillVars, fuseVars, callVars, probe>>

\* line 361
ColorMaskStage ==
  /\ pc = "start"
  /\ width # 0 /\ height # 0
  /\ colorMask' = buildColorDistanceMask(data, width, height, pixelCount)
  /\ pc' = "colorDilate"
  /\ UNCHANGED <<input, colorDilated, colorBlurred, edgeVars, fillVars, fuseVars,
                 result, callVars, probe>>

\* line 362
ColorDilateStage ==
  /\ pc = "colorDilate"
  /\ colorDilated' = dilate(colorMask, width, height, 2)
  /\ pc' = "colorBlur"
  /\ UNCHANGED <<input, colorMask, colorBlurred, edgeVars, fillVars, fuseVars,
                 result, callVars, probe>>

\* line 363
ColorBlurStage ==
  /\ pc = "colorBlur"
  /\ colorBlurred' = gaussianBlur(colorDilated, width, height, 2, 12)
  /\ pc' = "grayscale"
  /\ UNCHANGED <<input, colorMask, colorDilated, edgeVars, fillVars, fuseVars,
                 result, callVars, probe>>

\* lines 366-372
GrayscaleStage ==
  /\ pc = "grayscale"
  /\ grayscale' = Grayscale(data, pixelCount)
  /\ pc' = "sobel"
  /\ UNCHANGED <<input, colorVars, sobelMagnitude, maxMagnitude, normalizedEdges,
                 threshold, binaryEdges, sealedEdges, fillVars, fuseVars, result,
                 callVars, probe>>

\* lines 374-398
SobelStage ==
  /\ pc = "sobel"
  /\ sobelMagnitude' = SobelMagnitude(grayscale, width, height, pixelCount)
  /\ maxMagnitude' = MaxFn(sobelMagnitude', 0, pixelCount - 1)
  /\ pc' = "normalize"
  /\ UNCHANGED <<input, colorVars, grayscale, normalizedEdges, threshold,
                 binaryEdges, sealedEdges, fillVars, fuseVars, result, callVars, probe>>

\* lines 400-415
NormalizeStage ==
  /\ pc = "normalize"
  /\ normalizedEdges' = NormalizedEdges(sobelMagnitude, maxMagnitude, pixelCount)
  /\ threshold' = Threshold(normalizedEdges', pixelCount)
  /\ pc' = "binary"
  /\ UNCHANGED <<input, colorVars, grayscale, sobelMagnitude, maxMagnitude,
                 binaryEdges, sealedEdges, fillVars, fuseVars, result, callVars, probe>>

\* lines 417-420
BinaryEdgesStage ==
  /\ pc = "binary"
  /\ binaryEdges' = BinaryEdges(normalizedEdges, threshold, pixelCount)
  /\ pc' = "seal"
  /\ UNCHANGED <<input, colorVars, grayscale, sobelMagnitude, maxMagnitude,
                 normalizedEdges, threshold, sealedEdges, fillVars, fuseVars, result,
                 callVars, probe>>

\* line 422
SealEdgesStage ==
  /\ pc = "seal"
  /\ sealedEdges' = dilate(binaryEdges, width, height, REGION_FILL_DILATION_RADIUS)
  /\ pc' = "fill"
  /\ UNCHANGED <<input, colorVars, grayscale, sobelMagnitude, maxMagnitude,
                 normalizedEdges, threshold, binaryEdges, fillVars, fuseVars, result,
                 callVars, probe>>

\* Fault: the visited buffer of the previous invocation reused when its size fits
StaleVisited(total) == IF Length(visited) = total THEN visited ELSE Zeros(total)

\* line 557: new Uint8Array(total)
NewVisited(total) == Zeros(total)

\* line 558: new Uint32Array(total)
NewQueue(total) == Zeros(total)

\* line 423: the call fillClosedRegions(sealedEdges, width, height)
FillStage ==
  /\ pc = "fill"
  /\ LET st == FillRun(NewVisited(pixelCount), NewQueue(pixelCount),
                       sealedEdges, width, height)
     IN /\ visited' = st.visited
        /\ queue' = st.queue
        /\ head' = st.head
        /\ tail' = st.tail
        /\ filledRegions' = FillOutput(st.visited, pixelCount)
  /\ cursor' = 0
  /\ pc' = "maskSource"
  /\ UNCHANGED <<input, colorVars, edgeVars, fuseVars, result, callVars, probe>>

(***************************************************************************)
(* buildOcclusionMask, lines 425-456                                       *)
(***************************************************************************)
\* lines 425-428
MaskSourceStage ==
  /\ pc = "maskSource"
  /\ maskSource' = MaskSource(sealedEdges, filledRegions, pixelCount)
  /\ pc' = "edgeDilate"
  /\ UNCHANGED <<input, colorVars, edgeVars, fillVars, edgeDilated, edgeBlurred,
                 objectRegionDilated, objectRegionSoft, combined, result, callVars,
                 probe>>

\* line 430
EdgeDilateStage ==
  /\ pc = "edgeDilate"
  /\ edgeDilated' = dilate(maskSource, width, height, EDGE_DILATION_RADIUS)
  /\ pc' = "edgeBlur"
  /\ UNCHANGED <<input, colorVars, edgeVars, fillVars, maskSource, edgeBlurred,
                 objectRegionDilated, objectRegionSoft, combined, result, callVars,
                 probe>>

\* line 431
EdgeBlurStage ==
  /\ pc = "edgeBlur"
  /\ edgeBlurred' = gaussianBlur(edgeDilated, width, height, BLUR_RADIUS, GAUSSIAN_SIGMA)
  /\ pc' = "regionDilate"
  /\ UNCHANGED <<input, colorVars, edgeVars, fillVars, maskSource, edgeDilated,
                 objectRegionDilated, objectRegionSoft, combined, result, callVars,
                 probe>>

\* line 434
ObjectRegionDilateStage ==
  /\ pc = "regionDilate"
  /\ objectRegionDilated' = dilate(maskSource, width, height, 10)
  /\ pc' = "regionSoft"
  /\ UNCHANGED <<input, colorVars, edgeVars, fillVars, maskSource, edgeDilated,
                 edgeBlurred, objectRegionSoft, combined, result, callVars, probe>>

\* line 435
ObjectRegionSoftStage ==
  /\ pc = "regionSoft"
  /\ objectRegionSoft' = gaussianBlur(objectRegionDilated, width, height, 8, 40)
  /\ pc' = "combine"
  /\ UNCHANGED <<input, colorVars, edgeVars, fillVars, maskSource, edgeDilated,
                 edgeBlurred, objectRegionDilated, combined, result, callVars, probe>>

\* lines 438-442
CombineStage ==
  /\ pc = "combine"
  /\ combined' = Combine(edgeBlurred, colorBlurred, objectRegionSoft, pixelCount)
  /\ pc' = "output"
  /\ UNCHANGED <<input, colorVars, edgeVars, fillVars, maskSource, edgeDilated,
                 edgeBlurred, objectRegionDilated, objectRegionSoft, result, callVars,
                 probe>>

\* lines 444-456
OutputStage ==
  /\ pc = "output"
  /\ result' = ImageData(Output(combined, pixelCount), width, height)
  /\ pc' = "done"
  /\ UNCHANGED <<input, colorVars, edgeVars, fillVars, fuseVars, callVars, probe>>

StageNext ==
  \/ ColorMaskStage \/ ColorDilateStage \/ ColorBlurStage
  \/ GrayscaleStage \/ SobelStage \/ NormalizeStage \/ BinaryEdgesStage
  \/ SealEdgesStage \/ FillStage
  \/ MaskSourceStage \/ EdgeDilateStage \/ EdgeBlurStage
  \/ ObjectRegionDilateStage \/ ObjectRegionSoftStage \/ CombineStage \/ OutputStage

Next == DegenerateReturn \/ StageNext

Spec == Init /\ [][Next]_vars

(***************************************************************************)
(* The end-to-end scenario: a 40 x 40 raster of (230,230,230) with a solid *)
(* (180,30,30) square over x, y in 15..24                                  *)
(***************************************************************************)
Scenario == Raster(40, 40, Wall, Object, 15, 24, 15, 24)

\* the scenario, and the same scene in the other colours of the palette
ScenarioRasters ==
  {Raster(40, 40, bg, fg, 15, 24, 15, 24) : bg \in Backgrounds, fg \in Palette}

InitScenario ==
  /\ pc = "start"
  /\ width = 40 /\ height = 40 /\ data \in ScenarioRasters
  /\ Fresh
  /\ calls = 1 /\ first = None /\ effect = None /\ probe = None

SpecScenario == InitScenario /\ [][StageNext]_vars

(***************************************************************************)
(* Successive invocations: when one has returned, the caller starts the    *)
(* next on another raster.  The locals of the finished invocation are      *)
(* garbage; they keep their last values until a stage assigns them.        *)
(***************************************************************************)
SeqRasters ==
  {<<SeqSide, SeqSide, Raster(SeqSide, SeqSide, Wall, fg, 1, SeqSide - 2, 1, SeqSide - 2)>> :
     fg \in {Wall, Object}}
  \cup {<<0, SeqSide, None>>}

InitSeq ==
  /\ pc = "start"
  /\ \E r \in SeqRasters : width = r[1] /\ height = r[2] /\ data = r[3]
  /\ Fresh
  /\ calls = 1 /\ first = None /\ effect = None /\ probe = None

Restart ==
  /\ pc = "done"
  /\ calls < MaxCalls
  /\ \E r \in SeqRasters : width' = r[1] /\ height' = r[2] /\ data' = r[3]
  /\ first' = IF first = None THEN <<width, height, data, result>> ELSE first
  /\ calls' = calls + 1
  /\ effect' = effect
  /\ pc' = "start"
  /\ UNCHANGED <<colorVars, edgeVars, fillVars, fuseVars, result, probe>>

NextSeq == Next \/ Restart

SpecSeq == InitSeq /\ [][NextSeq]_vars

(***************************************************************************)
(* The edge stages of buildOcclusionMask, lines 366-420, on rasters of up  *)
(* to MaxEdgeSide pixels a side: the colour stages, which they do not      *)
(* read, are left out                                                      *)
(***************************************************************************)
InitEdges ==
  /\ pc = "grayscale"
  /\ \E d \in (1 .. MaxEdgeSide) \X (1 .. MaxEdgeSide) :
       /\ width = d[1]
       /\ height = d[2]
       /\ data \in Rasters(d[1], d[2])
  /\ Fresh
  /\ calls = 1 /\ first = None /\ effect = None /\ probe = None

NextEdges == GrayscaleStage \/ SobelStage \/ NormalizeStage \/ BinaryEdgesStage

SpecEdges == InitEdges /\ [][NextEdges]_vars

(***************************************************************************)
(* buildColorDistanceMask called on its own (line 361), on rasters of      *)
(* (100,100,100) with a rectangle of a colour at a distance of 57 to 59    *)
(* from it                                                                 *)
(***************************************************************************)
ColorBase == <<100, 100, 100, 255>>
ColorTints ==
  {<<158, 100, 100, 255>>, <<157, 100, 100, 255>>, <<142, 140, 100, 255>>,
   <<141, 140, 100, 255>>, <<134, 133, 133, 255>>, <<134, 134, 133, 255>>,
   <<100, 42, 100, 255>>, <<100, 100, 159, 255>>}

InitColor ==
  /\ pc = "start"
  /\ \E d \in (1 .. MaxColorSide) \X (1 .. MaxColorSide) :
       /\ width = d[1]
       /\ height = d[2]
       /\ data \in {Raster(d[1], d[2], bg, fg, x0, x1, y0, y1) :
                      bg \in {ColorBase}, fg \in ColorTints \cup {ColorBase},
                      x0 \in 0 .. d[1] - 1, x1 \in 0 .. d[1] - 1,
                      y0 \in 0 .. d[2] - 1, y1 \in 0 .. d[2] - 1}
  /\ Fresh
  /\ calls = 1 /\ first = None /\ effect = None /\ probe = None

SpecColor == InitColor /\ [][ColorMaskStage]_vars

(***************************************************************************)
(* The fusion loop of buildOcclusionMask, lines 438-442, on its own: its   *)
(* body reads colorBlurred[i], objectRegionSoft[i] and edgeBlurred[i] of   *)
(* one pixel, so the masks are one pixel long; the colour and the gate     *)
(* take every byte value                                                   *)
(***************************************************************************)
CombineEdgeLevels == {0, 64, 255}

InitCombine ==
  /\ pc = "combine"
  /\ width = 1 /\ height = 1 /\ data = None
  /\ colorMask = None /\ colorDilated = None
  /\ \E c \in 0 .. 255 : colorBlurred = Buffer([i \in {0} |-> c])
  /\ grayscale = None /\ sobelMagnitude = None /\ maxMagnitude = 0
  /\ normalizedEdges = None /\ threshold = 0
  /\ binaryEdges = None /\ sealedEdges = None
  /\ visited = None /\ queue = None /\ head = 0 /\ tail = 0 /\ cursor = 0
  /\ filledRegions = None /\ maskSource = None /\ edgeDilated = None
  /\ \E e \in CombineEdgeLevels : edgeBlurred = Buffer([i \in {0} |-> e])
  /\ objectRegionDilated = None
  /\ \E g \in 0 .. 255 : objectRegionSoft = Buffer([i \in {0} |-> g])
  /\ combined = None /\ result = None
  /\ calls = 1 /\ first = None /\ effect = None /\ probe = None

SpecCombine == InitCombine /\ [][CombineStage]_vars

(***************************************************************************)
(* fillClosedRegions called on its own, on any mask of zero and non-zero   *)
(* pixels: one action per loop iteration                                   *)
(***************************************************************************)
FillLevels == {90, 255}

FillMasks(w, h) ==
  {[i \in 0 .. w * h - 1 |-> IF i \in on THEN level ELSE 0] :
     on \in SUBSET (0 .. w * h - 1), level \in FillLevels}

InitFill ==
  /\ pc = "fill"
  /\ \E d \in Dims(MaxFillPixels) :
       /\ d[1] >= 1 /\ d[2] >= 1
       /\ width = d[1] /\ height = d[2]
       /\ sealedEdges \in FillMasks(d[1], d[2])
  /\ data = None
  /\ colorMask = None /\ colorDilated = None /\ colorBlurred = None
  /\ grayscale = None /\ sobelMagnitude = None /\ maxMagnitude = 0
  /\ normalizedEdges = None /\ threshold = 0 /\ binaryEdges = None
  /\ visited = None /\ queue = None /\ head = 0 /\ tail = 0 /\ cursor = 0
  /\ filledRegions = None /\ maskSource = None /\ edgeDilated = None
  /\ edgeBlurred = None /\ objectRegionDilated = None /\ objectRegionSoft = None
  /\ combined = None /\ result = None
  /\ calls = 1 /\ first = None /\ effect = None /\ probe = None

worklist == [visited |-> visited, queue |-> queue, head |-> head, tail |-> tail]

\* lines 556-560
FillStart ==
  /\ pc = "fill"
  /\ visited' = NewVisited(pixelCount)
  /\ queue' = NewQueue(pixelCount)
  /\ head' = 0
  /\ tail' = 0
  /\ cursor' = 0
  /\ pc' = IF width > 0 THEN "seedX" ELSE IF height > 0 THEN "seedY" ELSE "loop"
  /\ UNCHANGED <<input, colorVars, edgeVars, filledRegions, fuseVars, result,
                 callVars, probe>>

\* lines 575-578, one iteration: x = cursor
FillSeedX ==
  /\ pc = "seedX"
  /\ LET st == SeedColumn(worklist, sealedEdges, width, height, cursor)
     IN /\ visited' = st.visited
        /\ queue' = st.queue
        /\ tail' = st.tail
  /\ IF cursor + 1 < width
     THEN cursor' = cursor + 1 /\ pc' = "seedX"
     ELSE cursor' = 0 /\ pc' = IF height > 0 THEN "seedY" ELSE "loop"
  /\ UNCHANGED <<input, colorVars, edgeVars, head, filledRegions, fuseVars, result,
                 callVars, probe>>

\* lines 579-582, one iteration: y = cursor
FillSeedY ==
  /\ pc = "seedY"
  /\ LET st == SeedRow(worklist, sealedEdges, width, height, cursor)
     IN /\ visited' = st.visited
        /\ queue' = st.queue
        /\ tail' = st.tail
  /\ IF cursor + 1 < height
     THEN cursor' = cursor + 1 /\ pc' = "seedY"
     ELSE cursor' = 0 /\ pc' = "loop"
  /\ UNCHANGED <<input, colorVars, edgeVars, head, filledRegions, fuseVars, result,
                 callVars, probe>>

\* lines 584-594, one iteration
FillStep ==
  /\ pc = "loop"
  /\ head < tail
  /\ LET st == Visit(worklist, sealedEdges, width, height)
     IN /\ visited' = st.visited
        /\ queue' = st.queue
        /\ head' = st.head
        /\ tail' = st.tail
  /\ UNCHANGED <<pc, input, colorVars, edgeVars, cursor, filledRegions, fuseVars,
                 result, callVars, probe>>

\* lines 596-600, and the return
FillFinish ==
  /\ pc = "loop"
  /\ ~(head < tail)
  /\ filledRegions' = FillOutput(visited, pixelCount)
  /\ pc' = "maskSource"
  /\ UNCHANGED <<input, colorVars, edgeVars, visited, queue, head, tail, cursor,
                 fuseVars, result, callVars, probe>>

FillNext == FillStart \/ FillSeedX \/ FillSeedY \/ FillStep \/ FillFinish

SpecFill == InitFill /\ [][FillNext]_vars

\* fillClosedRegions is straight-line code on one thread: a call that can
\* take its next step takes it
SpecFillFair == InitFill /\ [][FillNext]_vars /\ WF_vars(FillNext)

(***************************************************************************)
(* dilate and gaussianBlur called on their own.  probe holds the arguments *)
(* (source, width, height) and the calls made so far, each with its radius,*)
(* sigma (in tenths) and result.                                           *)
(***************************************************************************)
ProbeLevels == {0, 90, 255}

\* <<radius, sigma>>: the pairs buildOcclusionMask uses, radius 0, and a narrow kernel
BlurParams == {<<0, 20>>, <<1, 5>>, <<2, 12>>, <<BLUR_RADIUS, GAUSSIAN_SIGMA>>, <<8, 40>>}

ProbeArgs ==
  {a \in [width : 0 .. MaxProbeSide, height : 0 .. MaxProbeSide, length : 0 .. MaxProbePixels] :
     /\ a.width * a.height <= MaxProbePixels
     /\ a.length - a.width * a.height \in {-1, 0, 1}}

\* a raster: the buffer has width * height elements
IsRaster(p) == p.width >= 1 /\ p.height >= 1 /\ Length(p.source) = p.width * p.height

InitProbe ==
  /\ pc = "probe"
  /\ \E a \in ProbeArgs :
       \E source \in [0 .. a.length - 1 -> ProbeLevels] :
         probe = [source |-> source, width |-> a.width, height |-> a.height,
                  made |-> << >>]
  /\ width = 0 /\ height = 0 /\ data = None
  /\ Fresh
  /\ calls = 1 /\ first = None /\ effect = None

\* dilate(source, width, height, radius); a second call uses a larger radius
ProbeDilate ==
  /\ pc = "probe"
  /\ \E radius \in 0 .. MaxRadius :
       /\ \/ probe.made = << >>
          \/ /\ Len(probe.made) = 1
             /\ probe.made[1].fn = "dilate"
             /\ probe.made[1].radius < radius
       /\ probe' = [probe EXCEPT !.made = Append(@,
                      [fn |-> "dilate", radius |-> radius, sigma |-> 0,
                       out |-> dilate(probe.source, probe.width, probe.height, radius)])]
  /\ UNCHANGED <<pc, input, colorVars, edgeVars, fillVars, fuseVars, result, callVars>>

\* gaussianBlur(source, width, height, radius, sigma) on a raster
ProbeBlur ==
  /\ pc = "probe"
  /\ probe.made = << >>
  /\ IsRaster(probe)
  /\ \E p \in BlurParams :
       probe' = [probe EXCEPT !.made = Append(@,
                   [fn |-> "gaussianBlur", radius |-> p[1], sigma |-> p[2],
                    out |-> gaussianBlur(probe.source, probe.width, probe.height,
                                         p[1], p[2])])]
  /\ UNCHANGED <<pc, input, colorVars, edgeVars, fillVars, fuseVars, result, callVars>>

NextProbe == ProbeDilate \/ ProbeBlur

SpecProbe == InitProbe /\ [][NextProbe]_vars

(***************************************************************************)
(* fillClosedRegions called on its own, on any mask of zero and 255 pixels *)
(* at least three pixels wide and high: the call is one step               *)
(***************************************************************************)
CallDims == {d \in Dims(MaxCallPixels) : d[1] >= 3 /\ d[2] >= 3}

InitFillCall ==
  /\ pc = "fill"
  /\ \E d \in CallDims :
       /\ width = d[1] /\ height = d[2]
       /\ sealedEdges \in [0 .. d[1] * d[2] - 1 -> {0, 255}]
  /\ data = None
  /\ colorMask = None /\ colorDilated = None /\ colorBlurred = None
  /\ grayscale = None /\ sobelMagnitude = None /\ maxMagnitude = 0
  /\ normalizedEdges = None /\ threshold = 0 /\ binaryEdges = None
  /\ visited = None /\ queue = None /\ head = 0 /\ tail = 0 /\ cursor = 0
  /\ filledRegions = None /\ maskSource = None /\ edgeDilated = None
  /\ edgeBlurred = None /\ objectRegionDilated = None /\ objectRegionSoft = None
  /\ combined = None /\ result = None
  /\ calls = 1 /\ first = None /\ effect = None /\ probe = None

SpecFillCall == InitFillCall /\ [][FillStage]_vars

(***************************************************************************)
(* The border flood fill of fillClosedRegions with its order freed: the    *)
(* border pixels are offered in any order, any waiting entry is removed    *)
(* next, and its four neighbours are offered in any order.  Everything     *)
(* else is the code's: the locals, enqueue and the output loop.  cursor is *)
(* the set of border pixels still to be offered.                           *)
(***************************************************************************)
OrderDims == {d \in Dims(MaxOrderPixels) : d[1] >= 3 /\ d[2] >= 3}

InitFillAnyOrder ==
  /\ pc = "fill"
  /\ \E d \in OrderDims :
       /\ width = d[1] /\ height = d[2]
       /\ sealedEdges \in [0 .. d[1] * d[2] - 1 -> {0, 255}]
  /\ data = None
  /\ colorMask = None /\ colorDilated = None /\ colorBlurred = None
  /\ grayscale = None /\ sobelMagnitude = None /\ maxMagnitude = 0
  /\ normalizedEdges = None /\ threshold = 0 /\ binaryEdges = None
  /\ visited = None /\ queue = None /\ head = 0 /\ tail = 0 /\ cursor = 0
  /\ filledRegions = None /\ maskSource = None /\ edgeDilated = None
  /\ edgeBlurred = None /\ objectRegionDilated = None /\ objectRegionSoft = None
  /\ combined = None /\ result = None
  /\ calls = 1 /\ first = None /\ effect = None /\ probe = None

\* lines 575-582: the pixels the seeding loops offer
BorderPixels ==
  {i \in 0 .. pixelCount - 1 : \/ i % width = 0 \/ i % width = width - 1
                               \/ i \div width = 0 \/ i \div width = height - 1}

\* the entries waiting in the worklist
Pending(st) == {st.queue[a] : a \in st.head .. st.tail - 1}

\* The worklist with its waiting entries in ascending order and the entries
\* already removed cleared: when any waiting entry may be removed next, the
\* order in which they wait is immaterial.
Arrange(st) ==
  LET waiting == Pending(st)
      rank == Buffer([v \in waiting |-> Cardinality({u \in waiting : u < v})])
  IN [st EXCEPT !.queue =
        Buffer([a \in DOMAIN st.queue |->
                  IF a >= st.head /\ a < st.tail
                  THEN CHOOSE v \in waiting : rank[v] = a - st.head
                  ELSE 0])]

\* the waiting entry v exchanged with the one at the head
Promote(st, v) ==
  LET a == CHOOSE b \in st.head .. st.tail - 1 : st.queue[b] = v
  IN [st EXCEPT !.queue[st.head] = v, !.queue[a] = st.queue[st.head]]

\* lines 590-593: the four neighbours, and the orders they can be offered in
Offsets == {<<-1, 0>>, <<1, 0>>, <<0, -1>>, <<0, 1>>}
Orders == {o \in [1 .. 4 -> Offsets] : {o[n] : n \in 1 .. 4} = Offsets}

\* lines 585-593 with the neighbours offered in the given order
VisitInOrder(st, source, w, h, order) ==
  LET idx == st.queue[st.head]
      x == idx % w
      y == idx \div w
      offer(s, n) == enqueue(s, source, w, h, x + order[n][1], y + order[n][2])
  IN offer(offer(offer(offer([st EXCEPT !.head = st.head + 1], 1), 2), 3), 4)

\* lines 556-560
OrderStart ==
  /\ pc = "fill"
  /\ visited' = NewVisited(pixelCount)
  /\ queue' = NewQueue(pixelCount)
  /\ head' = 0
  /\ tail' = 0
  /\ cursor' = BorderPixels
  /\ pc' = "seed"
  /\ UNCHANGED <<input, colorVars, edgeVars, filledRegions, fuseVars, result,
                 callVars, probe>>

\* lines 575-582, one call of enqueue, on any border pixel not yet offered
OrderSeed ==
  /\ pc = "seed"
  /\ \E i \in cursor :
       /\ LET st == Arrange(enqueue(worklist, sealedEdges, width, height,
                                    i % width, i \div width))
          IN /\ visited' = st.visited
             /\ queue' = st.queue
             /\ tail' = st.tail
       /\ cursor' = cursor \ {i}
       /\ pc' = IF cursor = {i} THEN "loop" ELSE "seed"
  /\ UNCHANGED <<input, colorVars, edgeVars, head, filledRegions, fuseVars, result,
                 callVars, probe>>

\* lines 584-594, one iteration, on any waiting entry
OrderStep ==
  /\ pc = "loop"
  /\ head < tail
  /\ \E v \in Pending(worklist), order \in Orders :
       LET st == Arrange(VisitInOrder(Promote(worklist, v), sealedEdges,
                                      width, height, order))
       IN /\ visited' = st.visited
          /\ queue' = st.queue
          /\ head' = st.head
          /\ tail' = st.tail
  /\ UNCHANGED <<pc, input, colorVars, edgeVars, cursor, filledRegions, fuseVars,
                 result, callVars, probe>>

\* lines 596-600, and the return
OrderFinish ==
  /\ pc = "loop"
  /\ ~(head < tail)
  /\ filledRegions' = FillOutput(visited, pixelCount)
  /\ pc' = "maskSource"
  /\ UNCHANGED <<input, colorVars, edgeVars, visited, queue, head, tail, cursor,
                 fuseVars, result, callVars, probe>>

NextAnyOrder == OrderStart \/ OrderSeed \/ OrderStep \/ OrderFinish

SpecFillAnyOrder == InitFillAnyOrder /\ [][NextAnyOrder]_vars

(***************************************************************************)
(* fillClosedRegions called on a mask that is zero except for one closed   *)
(* rectangular ring of 255: the pixels of the rectangle x0..x1 by y0..y1   *)
(* that are less than t pixels from its edge.  The ring encloses the block *)
(* x0+t..x1-t by y0+t..y1-t of zero pixels.                                *)
(***************************************************************************)
RingThicknesses == {1, 3}

RingMask(w, h, x0, x1, y0, y1, t) ==
  [i \in 0 .. w * h - 1 |->
     LET x == i % w
         y == i \div w
     IN IF x >= x0 /\ x <= x1 /\ y >= y0 /\ y <= y1
           /\ ~(x >= x0 + t /\ x <= x1 - t /\ y >= y0 + t /\ y <= y1 - t)
        THEN 255 ELSE 0]

\* the rings that fit a w x h mask and enclose at least one pixel
RingMasks(w, h) ==
  {RingMask(w, h, r[1], r[2], r[3], r[4], r[5]) :
     r \in {q \in (0 .. w - 1) \X (0 .. w - 1) \X (0 .. h - 1) \X (0 .. h - 1)
                    \X RingThicknesses :
              q[2] - q[1] >= 2 * q[5] /\ q[4] - q[3] >= 2 * q[5]}}

InitRing ==
  /\ pc = "fill"
  /\ width = RingSide + 1 /\ height = RingSide
  /\ sealedEdges \in RingMasks(RingSide + 1, RingSide)
  /\ data = None
  /\ colorMask = None /\ colorDilated = None /\ colorBlurred = None
  /\ grayscale = None /\ sobelMagnitude = None /\ maxMagnitude = 0
  /\ normalizedEdges = None /\ threshold = 0 /\ binaryEdges = None
  /\ visited = None /\ queue = None /\ head = 0 /\ tail = 0 /\ cursor = 0
  /\ filledRegions = None /\ maskSource = None /\ edgeDilated = None
  /\ edgeBlurred = None /\ objectRegionDilated = None /\ objectRegionSoft = None
  /\ combined = None /\ result = None
  /\ calls = 1 /\ first = None /\ effect = None /\ probe = None

SpecRing == InitRing /\ [][FillNext]_vars

(***************************************************************************)
(* estimateWallColor called on its own, on a crop of (128,128,128) with    *)
(* one pixel of another colour                                             *)
(***************************************************************************)
Gray == <<128, 128, 128, 255>>
Black == <<0, 0, 0, 255>>
White == <<255, 255, 255, 255>>
Outliers == {Black, White}

\* the large crop: the least height that gives a border of 2 pixels
WallHeight == 25

WallDims ==
  ((1 .. MaxWallSide) \X (1 .. MaxWallSide)) \cup {<<WallSide, WallHeight>>}

InitWall ==
  /\ pc = "probe"
  /\ \E d \in WallDims :
       /\ width = d[1]
       /\ height = d[2]
       /\ \E x \in 0 .. d[1] - 1, y \in 0 .. d[2] - 1, fg \in Outliers :
            data = Buffer(Raster(d[1], d[2], Gray, fg, x, x, y, y))
  /\ Fresh
  /\ calls = 1 /\ first = None /\ effect = None /\ probe = None

\* estimateWallColor(data, width, height)
ProbeWall ==
  /\ pc = "probe"
  /\ probe = None
  /\ probe' = [fn |-> "estimateWallColor", out |-> estimateWallColor(data, width, height)]
  /\ UNCHANGED <<pc, input, colorVars, edgeVars, fillVars, fuseVars, result, callVars>>

SpecWall == InitWall /\ [][ProbeWall]_vars

(***************************************************************************)
(* buildOcclusionMask on a long strip of (128,128,128): a black object in  *)
(* columns near the left end, and towards the right end a patch of a       *)
(* colour far from the wall colour but of nearly its luma, which gives a   *)
(* colour detection and no edge                                            *)
(***************************************************************************)
Tint == <<200, 100, 176, 255>>

\* columns x0..x1 of the object, and the rectangle of the patch; None for neither
GateObjects == {None, <<1, 1>>, <<2, 2>>, <<1, 2>>, <<0, 0>>}
GatePatches(w, h) ==
  {None, <<w - 3, w - 1, 0, h - 1>>, <<w - 2, w - 2, 1, 1>>, <<w - 4, w - 3, 0, 0>>,
   <<w - 1, w - 1, h - 1, h - 1>>}

GateRaster(w, h, object, patch) ==
  [j \in 0 .. 4 * w * h - 1 |->
     LET x == (j \div 4) % w
         y == (j \div 4) \div w
     IN IF object # None /\ x >= object[1] /\ x <= object[2] THEN Black[(j % 4) + 1]
        ELSE IF patch # None /\ x >= patch[1] /\ x <= patch[2]
                /\ y >= patch[3] /\ y <= patch[4] THEN Tint[(j % 4) + 1]
        ELSE Gray[(j % 4) + 1]]

InitGate ==
  /\ pc = "start"
  /\ width = GateWidth
  /\ height \in 2 .. MaxGateHeight
  /\ data \in {GateRaster(width, height, object, patch) :
                 object \in GateObjects, patch \in GatePatches(width, height)}
  /\ Fresh
  /\ calls = 1 /\ first = None /\ effect = None /\ probe = None

SpecGate == InitGate /\ [][StageNext]_vars

(***************************************************************************)
(* Buffers as objects.  probe.heap is the sequence of the typed arrays     *)
(* allocated so far, a buffer being named by its position; dilate,         *)
(* gaussianBlur and fillClosedRegions take the name of their source and    *)
(* give the heap they leave and the name of the buffer they return.        *)
(* probe.made records each call: its source, the heap before it (pre) and  *)
(* the buffer returned (out).  The same specification runs                 *)
(* buildOcclusionMask on small rasters, with the bytes it was handed kept  *)
(* in probe.input.                                                         *)
(***************************************************************************)
\* Fault: radius <= 0 answered with the source itself instead of source.slice()
dilateRefAliased(heap, source, w, h, radius) ==
  IF radius <= 0 THEN [heap |-> heap, out |-> source]
  ELSE [heap |-> Append(heap, dilate(heap[source], w, h, radius)),
        out |-> Len(heap) + 1]

\* lines 465-468 and 491: source.slice(), or result = new Uint8ClampedArray
\* filled by the loops; either is a new buffer
dilateRef(heap, source, w, h, radius) ==
  [heap |-> Append(heap, dilate(heap[source], w, h, radius)),
   out |-> Len(heap) + 1]

\* lines 501-506 and 532: source.slice(), or temp and result allocated and
\* filled by the two passes
gaussianBlurRef(heap, source, w, h, radius, sigma) ==
  IF radius <= 0
  THEN [heap |-> Append(heap, heap[source]), out |-> Len(heap) + 1]
  ELSE LET kernel == buildGaussianKernel(radius, sigma)
           temp == BlurHorizontal(heap[source], w, h, radius, kernel)
       IN [heap |-> heap \o <<temp, BlurVertical(temp, w, h, radius, kernel)>>,
           out |-> Len(heap) + 2]

\* lines 556-558 and 596-600: visited, queue and output are allocated
fillClosedRegionsRef(heap, source, w, h) ==
  LET total == w * h
      st == FillRun(NewVisited(total), NewQueue(total), heap[source], w, h)
  IN [heap |-> heap \o <<st.visited, st.queue, FillOutput(st.visited, total)>>,
      out |-> Len(heap) + 3]

HeapDims == {d \in Dims(MaxHeapPixels) : d[1] >= 1 /\ d[2] >= 1}

InitHeap ==
  /\ Fresh
  /\ calls = 1 /\ first = None /\ effect = None
  /\ \/ /\ pc = "probe"
        /\ width = 0 /\ height = 0 /\ data = None
        /\ \E d \in HeapDims :
             \E source \in [0 .. d[1] * d[2] - 1 -> {0, 255}] :
               probe = [heap |-> <<source>>, width |-> d[1], height |-> d[2],
                        made |-> << >>]
     \/ /\ pc = "start"
        /\ \E d \in Dims(MaxHeapPixels) :
             /\ width = d[1]
             /\ height = d[2]
             /\ data \in Rasters(d[1], d[2])
        /\ probe = [input |-> data]

\* the masks a call may be handed: the first buffer and those returned since
HeapMasks == {1} \cup {probe.made[k].out : k \in DOMAIN probe.made}

HeapCall(fn, radius, source, after) ==
  probe' = [probe EXCEPT
              !.heap = after.heap,
              !.made = Append(@, [fn |-> fn, radius |-> radius, source |-> source,
                                  pre |-> probe.heap, out |-> after.out])]

HeapDilate ==
  /\ pc = "probe"
  /\ Len(probe.made) < MaxHeapCalls
  /\ \E source \in HeapMasks, radius \in 0 .. 1 :
       HeapCall("dilate", radius, source,
                dilateRef(probe.heap, source, probe.width, probe.height, radius))
  /\ UNCHANGED <<pc, input, colorVars, edgeVars, fillVars, fuseVars, result, callVars>>

HeapBlur ==
  /\ pc = "probe"
  /\ Len(probe.made) < MaxHeapCalls
  /\ \E source \in HeapMasks, p \in {<<0, 20>>, <<2, 12>>} :
       HeapCall("gaussianBlur", p[1], source,
                gaussianBlurRef(probe.heap, source, probe.width, probe.height, p[1], p[2]))
  /\ UNCHANGED <<pc, input, colorVars, edgeVars, fillVars, fuseVars, result, callVars>>

HeapFill ==
  /\ pc = "probe"
  /\ Len(probe.made) < MaxHeapCalls
  /\ \E source \in HeapMasks :
       HeapCall("fillClosedRegions", 0, source,
                fillClosedRegionsRef(probe.heap, source, probe.width, probe.height))
  /\ UNCHANGED <<pc, input, colorVars, edgeVars, fillVars, fuseVars, result, callVars>>

NextHeap == HeapDilate \/ HeapBlur \/ HeapFill \/ Next

SpecHeap == InitHeap /\ [][NextHeap]_vars

(***************************************************************************)
(* Lines 423-428 on their own: fillClosedRegions called on any mask whose  *)
(* non-zero pixels have one value, 90 or 255, and maskSource made from the *)
(* mask and the result                                                     *)
(***************************************************************************)
InitFillSource ==
  /\ pc = "fill"
  /\ \E d \in {e \in Dims(MaxSourcePixels) : e[1] >= 1 /\ e[2] >= 1} :
       /\ width = d[1] /\ height = d[2]
       /\ \E mask \in FillMasks(d[1], d[2]) : sealedEdges = Buffer(mask)
  /\ data = None
  /\ colorMask = None /\ colorDilated = None /\ colorBlurred = None
  /\ grayscale = None /\ sobelMagnitude = None /\ maxMagnitude = 0
  /\ normalizedEdges = None /\ threshold = 0 /\ binaryEdges = None
  /\ visited = None /\ queue = None /\ head = 0 /\ tail = 0 /\ cursor = 0
  /\ filledRegions = None /\ maskSource = None /\ edgeDilated = None
  /\ edgeBlurred = None /\ objectRegionDilated = None /\ objectRegionSoft = None
  /\ combined = None /\ result = None
  /\ calls = 1 /\ first = None /\ effect = None /\ probe = None

NextFillSource == FillStage \/ MaskSourceStage

SpecFillSource == InitFillSource /\ [][NextFillSource]_vars

(***************************************************************************)
(* TilePreview.tsx, lines 275-361: the effect that builds the occlusion    *)
(* texture.  effect is the record                                          *)
(*   pc                 position in the effect                             *)
(*   uploadedImage, wallBoundingBox, imageDimensions, ctx                  *)
(*                      what the effect reads (ctx: getContext succeeded)  *)
(*   crop               cropX, cropY, cropWidth, cropHeight                *)
(*   canvas             the pixels put back on the canvas                  *)
(*   held               the texture in the state when the effect began     *)
(*   occlusionTexture   the texture in the state                           *)
(*   disposed           the textures disposed of                           *)
(*   thrown             where an exception was raised in the try block     *)
(*   logged, escaped    console.error was called; an exception left the    *)
(*                      effect                                             *)
(*   cancelled          the flag set by the cleanup function               *)
(***************************************************************************)
\* the state holds no texture (null); the textures are "previous" and "built"
NoTexture == "null"

\* the positions of buildOcclusionMask at which a stage can raise
MaskStages ==
  {"start", "colorDilate", "colorBlur", "grayscale", "sobel", "normalize",
   "binary", "seal", "fill", "maskSource", "edgeDilate", "edgeBlur",
   "regionDilate", "regionSoft", "combine", "output"}

\* Math.round of a number given in tenths
Round(tenths) == (tenths + 5) \div 10

\* imageDimensions, and wallBoundingBox in tenths of a pixel (None: null)
EffectDimensions == {<<0, 3>>, <<3, 3>>, <<3, 2>>}
EffectBoxes ==
  {None,
   [x |-> -14, y |-> 6, width |-> 50, height |-> 4],
   [x |-> 10, y |-> 0, width |-> 20, height |-> 30],
   [x |-> 0, y |-> -5, width |-> 34, height |-> 26]}

\* lines 285-290
CropOf(box, dims) ==
  LET cropX == Min(Max(Round(box.x), 0), dims[1] - 1)
      cropY == Min(Max(Round(box.y), 0), dims[2] - 1)
  IN [cropX |-> cropX,
      cropY |-> cropY,
      cropWidth |-> Min(Max(Round(box.width), 1), dims[1] - cropX),
      cropHeight |-> Min(Max(Round(box.height), 1), dims[2] - cropY)]

\* line 303 and 307: the photo drawn on the canvas, a wall with an object
\* down its left column
PhotoPixels(dims) == Buffer(Raster(dims[1], dims[2], Wall, Object, 0, 0, 0, dims[2] - 1))

\* line 308: ctx.getImageData(cropX, cropY, cropWidth, cropHeight)
GetImageData(photo, dims, c) ==
  Buffer([j \in 0 .. 4 * c.cropWidth * c.cropHeight - 1 |->
            LET x == (j \div 4) % c.cropWidth
                y == (j \div 4) \div c.cropWidth
            IN photo[((c.cropY + y) * dims[1] + c.cropX + x) * 4 + (j % 4)]])

\* lines 312-336: alpha zeroed everywhere, then set from the R byte of the
\* mask inside the crop where that byte is not zero
Composite(photo, dims, c, mask) ==
  Buffer([j \in DOMAIN photo |->
            LET x == ((j \div 4) % dims[1]) - c.cropX
                y == ((j \div 4) \div dims[1]) - c.cropY
            IN IF j % 4 # 3 THEN photo[j]
               ELSE IF x >= 0 /\ x < c.cropWidth /\ y >= 0 /\ y < c.cropHeight
                    THEN mask[(y * c.cropWidth + x) * 4]
                    ELSE 0])

\* setOcclusionTexture((prev) => { prev?.dispose(); return next; })
SetOcclusionTexture(e, next) ==
  [e EXCEPT !.disposed = IF e.occlusionTexture = NoTexture THEN @
                         ELSE @ \cup {e.occlusionTexture},
            !.occlusionTexture = next]

\* Fault: a handler that logs the error and raises it again
CatchRethrows(e) == [e EXCEPT !.logged = TRUE, !.escaped = TRUE, !.pc = "returned"]

\* lines 350-356: the catch block
Catch(e) ==
  SetOcclusionTexture([e EXCEPT !.logged = TRUE, !.pc = "returned"], NoTexture)

InitEffect ==
  /\ pc = "effect"
  /\ width = 0 /\ height = 0 /\ data = None
  /\ Fresh
  /\ calls = 0 /\ first = None /\ probe = None
  /\ \E image \in BOOLEAN, box \in EffectBoxes, dims \in EffectDimensions,
        ctx \in BOOLEAN, held \in {NoTexture, "previous"} :
       effect = [pc |-> "guard", uploadedImage |-> image, wallBoundingBox |-> box,
                 imageDimensions |-> dims, ctx |-> ctx,
                 crop |-> None, canvas |-> None,
                 held |-> held, occlusionTexture |-> held, disposed |-> {},
                 thrown |-> "none", logged |-> FALSE, escaped |-> FALSE,
                 cancelled |-> FALSE]

pipelineVars == <<input, colorVars, edgeVars, fillVars, fuseVars, result>>

\* lines 276-290
EffectGuard ==
  /\ pc = "effect" /\ effect.pc = "guard"
  /\ IF \/ ~effect.uploadedImage \/ effect.wallBoundingBox = None
        \/ effect.imageDimensions[1] = 0 \/ effect.imageDimensions[2] = 0
     THEN effect' = SetOcclusionTexture([effect EXCEPT !.pc = "returned"], NoTexture)
     ELSE effect' = [effect EXCEPT !.pc = "context",
                       !.crop = CropOf(effect.wallBoundingBox, effect.imageDimensions)]
  /\ UNCHANGED <<pc, pipelineVars, calls, first, probe>>

\* lines 292-303
EffectContext ==
  /\ pc = "effect" /\ effect.pc = "context"
  /\ IF ~effect.ctx
     THEN effect' = SetOcclusionTexture([effect EXCEPT !.pc = "returned"], NoTexture)
     ELSE effect' = [effect EXCEPT !.pc = "read",
                       !.canvas = PhotoPixels(effect.imageDimensions)]
  /\ UNCHANGED <<pc, pipelineVars, calls, first, probe>>

\* lines 307-311: the pixels are read and buildOcclusionMask is called on a
\* copy of the crop
EffectRead ==
  /\ pc = "effect" /\ effect.pc = "read"
  /\ width' = effect.crop.cropWidth
  /\ height' = effect.crop.cropHeight
  /\ data' = GetImageData(effect.canvas, effect.imageDimensions, effect.crop)
  /\ effect' = [effect EXCEPT !.pc = "mask"]
  /\ calls' = calls + 1
  /\ pc' = "start"
  /\ UNCHANGED <<colorVars, edgeVars, fillVars, fuseVars, result, first, probe>>

\* lines 307-308: getImageData raises
EffectReadThrows ==
  /\ pc = "effect" /\ effect.pc = "read"
  /\ effect' = [effect EXCEPT !.pc = "catch", !.thrown = "getImageData"]
  /\ UNCHANGED <<pc, pipelineVars, calls, first, probe>>

\* lines 309-311: a stage of buildOcclusionMask raises
StageThrows ==
  /\ pc \in MaskStages /\ effect.pc = "mask"
  /\ effect' = [effect EXCEPT !.pc = "catch", !.thrown = pc]
  /\ pc' = "effect"
  /\ UNCHANGED <<pipelineVars, calls, first, probe>>

\* lines 312-337
EffectComposite ==
  /\ pc = "done" /\ effect.pc = "mask"
  /\ effect' = [effect EXCEPT !.pc = "texture",
                  !.canvas = Composite(effect.canvas, effect.imageDimensions,
                                       effect.crop, result.data)]
  /\ pc' = "effect"
  /\ UNCHANGED <<pipelineVars, calls, first, probe>>

\* line 338: new THREE.CanvasTexture raises
EffectTextureThrows ==
  /\ pc = "effect" /\ effect.pc = "texture"
  /\ effect' = [effect EXCEPT !.pc = "catch", !.thrown = "CanvasTexture"]
  /\ UNCHANGED <<pc, pipelineVars, calls, first, probe>>

\* lines 338-349, and the return of the cleanup function
EffectCommit ==
  /\ pc = "effect" /\ effect.pc = "texture"
  /\ IF effect.cancelled
     THEN effect' = [effect EXCEPT !.pc = "returned", !.disposed = @ \cup {"built"}]
     ELSE effect' = SetOcclusionTexture([effect EXCEPT !.pc = "returned"], "built")
  /\ UNCHANGED <<pc, pipelineVars, calls, first, probe>>

\* lines 350-356
EffectCatch ==
  /\ pc = "effect" /\ effect.pc = "catch"
  /\ effect' = Catch(effect)
  /\ UNCHANGED <<pc, pipelineVars, calls, first, probe>>

\* lines 358-360: the cleanup function, run when the effect is torn down
EffectCleanup ==
  /\ pc = "effect" /\ effect.pc = "returned"
  /\ effect.crop # None /\ effect.ctx /\ ~effect.escaped
  /\ effect' = [effect EXCEPT !.pc = "cleaned", !.cancelled = TRUE]
  /\ UNCHANGED <<pc, pipelineVars, calls, first, probe>>

NextEffect ==
  \/ EffectGuard \/ EffectContext \/ EffectRead \/ EffectReadThrows
  \/ StageThrows \/ StageNext
  \/ EffectComposite \/ EffectTextureThrows \/ EffectCommit \/ EffectCatch
  \/ EffectCleanup

SpecEffect == InitEffect /\ [][NextEffect]_vars

(***************************************************************************)
(* Properties of buildOcclusionMask (specification Spec)                   *)
(***************************************************************************)
\* The mask value of pixel (x, y) of the raster returned: its alpha byte
Alpha(x, y) == result.data[(y * result.width + x) * 4 + 3]

\* All pixels of the input have the same red, green and blue bytes
UniformInput ==
  \A i \in 0 .. pixelCount - 1 : \A c \in 0 .. 2 : data[4 * i + c] = data[c]

InByteRange(buf) == \A i \in DOMAIN buf : buf[i] \in 0 .. 255

\* C1: for every input with width >= 1 and height >= 1, the raster returned
\* has the input's width and height, and its buffer holds width*height*4 bytes.
DimensionsPreserved ==
  (pc = "done" /\ width >= 1 /\ height >= 1) =>
    /\ result.width = width
    /\ result.height = height
    /\ Length(result.data) = width * height * 4

\* an invocation on a raster that is not square has returned
DimensionsPreservedWitness ==
  /\ pc = "done"
  /\ width = 2 /\ height = 3
  /\ result.width = 2 /\ result.height = 3
  /\ Length(result.data) = 24

\* C2: for every RGBA input with width, height >= 1, every byte of the raster
\* returned and every value of every intermediate mask (colour mask, edge
\* mask, gate, fused mask, and the masks they are made from) is an integer
\* in 0..255.
MasksInByteRange ==
  /\ InByteRange(colorMask) /\ InByteRange(colorDilated) /\ InByteRange(colorBlurred)
  /\ InByteRange(binaryEdges) /\ InByteRange(sealedEdges) /\ InByteRange(filledRegions)
  /\ InByteRange(maskSource) /\ InByteRange(edgeDilated) /\ InByteRange(edgeBlurred)
  /\ InByteRange(objectRegionDilated) /\ InByteRange(objectRegionSoft)
  /\ InByteRange(combined)
  /\ pc = "done" => InByteRange(result.data)

\* an invocation on a 3 x 3 raster has returned a mask that reaches 255,
\* from a colour mask holding both 0 and 255
MasksInByteRangeWitness ==
  /\ pc = "done"
  /\ width = 3 /\ height = 3
  /\ \E i \in DOMAIN colorMask : colorMask[i] = 0
  /\ \E i \in DOMAIN colorMask : colorMask[i] = 255
  /\ \E j \in DOMAIN result.data : result.data[j] = 255

\* C3: for every input of width, height >= 1 whose pixels all have the same
\* RGB colour, the mask returned is 0 at every pixel.
UniformInputGivesZeroMask ==
  (pc = "done" /\ width >= 1 /\ height >= 1 /\ UniformInput) =>
    \A j \in DOMAIN result.data : result.data[j] = 0

\* a uniform input whose colour mask fired everywhere (too few border samples
\* to find the wall colour) has been answered with the zero mask
UniformInputGivesZeroMaskWitness ==
  /\ pc = "done"
  /\ width >= 1 /\ height >= 1
  /\ UniformInput
  /\ \A i \in DOMAIN colorMask : colorMask[i] = 255
  /\ \A j \in DOMAIN result.data : result.data[j] = 0

\* C5 as stated: when the width or the height of the input is zero, the
\* raster returned is 1 x 1 with all bytes zero, whatever the other dimension.
DegenerateIsOneByOne ==
  (pc = "done" /\ (width = 0 \/ height = 0)) =>
    /\ result.width = 1 /\ result.height = 1
    /\ Length(result.data) = 4
    /\ \A j \in DOMAIN result.data : result.data[j] = 0

\* C5: when the width or the height of the input is zero, buildOcclusionMask
\* returns (it has no failing path) a raster with all bytes zero whose width
\* and height are the input's with a zero replaced by 1; it is 1 x 1 only
\* when the other dimension is zero or one.
DegenerateIsEmpty ==
  (pc = "done" /\ (width = 0 \/ height = 0)) =>
    /\ result.width = Max(width, 1)
    /\ result.height = Max(height, 1)
    /\ Length(result.data) = 4 * Max(width, 1) * Max(height, 1)
    /\ \A j \in DOMAIN result.data : result.data[j] = 0

\* an invocation with width 0 and height 3 has returned a 1 x 3 raster
DegenerateIsEmptyWitness ==
  /\ pc = "done"
  /\ width = 0 /\ height = 3
  /\ result.width = 1 /\ result.height = 3
  /\ Length(result.data) = 12

(***************************************************************************)
(* The scenario (specification SpecScenario)                               *)
(***************************************************************************)
\* C4: for the 40 x 40 input, buildOcclusionMask returns alpha < 20 at
\* (5,5), (5,34), (34,5) and (34,34) and alpha > 150 at (19,19).
ScenarioMask ==
  (pc = "done" /\ data = Scenario) =>
    /\ Alpha(5, 5) < 20 /\ Alpha(5, 34) < 20
    /\ Alpha(34, 5) < 20 /\ Alpha(34, 34) < 20
    /\ Alpha(19, 19) > 150

\* the invocation on the scenario has returned a 40 x 40 mask, opaque at the
\* centre of the square
ScenarioMaskWitness ==
  /\ pc = "done"
  /\ data = Scenario
  /\ result.width = 40 /\ result.height = 40
  /\ Alpha(19, 19) = 255
  /\ Alpha(5, 5) = 0

(***************************************************************************)
(* Successive invocations (specification SpecSeq)                          *)
(***************************************************************************)
\* C6: the output depends only on the input raster: in any sequence of
\* invocations, an invocation on the input of the first one returns what the
\* first one returned.
SameInputSameOutput ==
  (pc = "done" /\ first # None /\ first[1] = width /\ first[2] = height
     /\ first[3] = data) =>
    result = first[4]

\* the third invocation, on the raster of the first one (the square), has
\* returned the mask the first one returned
SameInputSameOutputWitness ==
  /\ pc = "done"
  /\ calls = 3
  /\ first # None
  /\ first[1] = width /\ first[2] = height /\ first[3] = data
  /\ width = SeqSide
  /\ ~UniformInput
  /\ result = first[4]
  /\ \E j \in DOMAIN result.data : result.data[j] = 255

(***************************************************************************)
(* fillClosedRegions (specification SpecFill)                              *)
(***************************************************************************)
\* C10: for every width, height >= 1, fillClosedRegions applied to the
\* all-zero mask returns the all-zero mask.
FillOfZeroMaskIsZero ==
  (pc = "maskSource" /\ \A i \in DOMAIN sealedEdges : sealedEdges[i] = 0) =>
    /\ Length(filledRegions) = width * height
    /\ \A i \in DOMAIN filledRegions : filledRegions[i] = 0

\* the fill of the all-zero 3 x 3 mask, whose centre is reached only through
\* the worklist, has returned
FillOfZeroMaskIsZeroWitness ==
  /\ pc = "maskSource"
  /\ width = 3 /\ height = 3
  /\ \A i \in DOMAIN sealedEdges : sealedEdges[i] = 0
  /\ head = 9
  /\ \A i \in DOMAIN filledRegions : filledRegions[i] = 0

(***************************************************************************)
(* dilate and gaussianBlur (specification SpecProbe)                       *)
(***************************************************************************)
\* C7: for every mask and every width and height, dilate(mask, width,
\* height, 0) returns a buffer equal to mask element for element.
DilateRadiusZeroIsIdentity ==
  pc = "probe" =>
    \A k \in DOMAIN probe.made :
      (probe.made[k].fn = "dilate" /\ probe.made[k].radius = 0) =>
        probe.made[k].out = probe.source

\* dilate with radius 0 has returned a mask that is not zero, called with a
\* width and height that do not match the length of the mask
DilateRadiusZeroIsIdentityWitness ==
  /\ pc = "probe"
  /\ Len(probe.made) >= 1
  /\ probe.made[1].fn = "dilate" /\ probe.made[1].radius = 0
  /\ probe.width * probe.height # Length(probe.source)
  /\ \E i \in DOMAIN probe.source : probe.source[i] = 90
  /\ probe.made[1].out = probe.source

\* C8: for every raster mask and radii 0 <= r1 < r2, dilate(mask, r1) is
\* pixel-wise <= dilate(mask, r2), and no dilation lowers a pixel of its input.
DilateMonotoneInRadius ==
  (pc = "probe" /\ IsRaster(probe)) =>
    /\ \A k \in DOMAIN probe.made :
         probe.made[k].fn = "dilate" =>
           \A i \in DOMAIN probe.source : probe.source[i] <= probe.made[k].out[i]
    /\ \A j, k \in DOMAIN probe.made :
         (/\ probe.made[j].fn = "dilate" /\ probe.made[k].fn = "dilate"
          /\ probe.made[j].radius < probe.made[k].radius) =>
           \A i \in DOMAIN probe.source : probe.made[j].out[i] <= probe.made[k].out[i]

\* a raster has been dilated with radius 1 and then with radius 2, and the
\* second result is larger at some pixel
DilateMonotoneInRadiusWitness ==
  /\ pc = "probe"
  /\ IsRaster(probe)
  /\ Len(probe.made) = 2
  /\ probe.made[1].fn = "dilate" /\ probe.made[1].radius = 1
  /\ probe.made[2].fn = "dilate" /\ probe.made[2].radius = 2
  /\ \E i \in DOMAIN probe.source : probe.made[1].out[i] < probe.made[2].out[i]

\* C9: for every raster mask with values in 0..255, every pixel of the output
\* of gaussianBlur is in 0..255 and lies between the least and the greatest
\* value of the input.
BlurWithinInputRange ==
  pc = "probe" =>
    \A k \in DOMAIN probe.made :
      probe.made[k].fn = "gaussianBlur" =>
        /\ DOMAIN probe.made[k].out = DOMAIN probe.source
        /\ \A i \in DOMAIN probe.made[k].out :
             /\ probe.made[k].out[i] \in 0 .. 255
             /\ \E lo \in DOMAIN probe.source : probe.source[lo] <= probe.made[k].out[i]
             /\ \E hi \in DOMAIN probe.source : probe.made[k].out[i] <= probe.source[hi]

\* a mask holding 0 and 255 has been blurred with the radius and sigma of
\* the edge mask, to values that include one strictly between them
BlurWithinInputRangeWitness ==
  /\ pc = "probe"
  /\ Len(probe.made) = 1
  /\ probe.made[1].fn = "gaussianBlur"
  /\ probe.made[1].radius = BLUR_RADIUS /\ probe.made[1].sigma = GAUSSIAN_SIGMA
  /\ \E i \in DOMAIN probe.source : probe.source[i] = 0
  /\ \E i \in DOMAIN probe.source : probe.source[i] = 255
  /\ \E i \in DOMAIN probe.made[1].out : probe.made[1].out[i] \notin {0, 255}

(***************************************************************************)
(* fillClosedRegions on a closed ring (specification SpecRing)             *)
(***************************************************************************)
\* the columns and the rows that hold a non-zero pixel of the mask
RingColumns == {i % width : i \in {j \in DOMAIN sealedEdges : sealedEdges[j] # 0}}
RingRows == {i \div width : i \in {j \in DOMAIN sealedEdges : sealedEdges[j] # 0}}

\* pixel i lies in the rectangle the ring spans, so inside the ring if it is zero
InsideRing(i) ==
  /\ \E a, b \in RingColumns : a <= i % width /\ i % width <= b
  /\ \E a, b \in RingRows : a <= i \div width /\ i \div width <= b

\* C11 as stated: for a mask that is zero except for one closed ring of 255
\* enclosing a block of zero pixels, the pixels fillClosedRegions outputs as
\* 255 are exactly the pixels of the enclosed block, and every zero pixel
\* outside the ring is output as 0.
RingFillMarksOnlyEnclosedBlock ==
  pc = "maskSource" =>
    \A i \in DOMAIN sealedEdges :
      /\ filledRegions[i] = 255 <=> (sealedEdges[i] = 0 /\ InsideRing(i))
      /\ (sealedEdges[i] = 0 /\ ~InsideRing(i)) => filledRegions[i] = 0

\* C11: for a mask that is zero except for one closed ring of 255 enclosing a
\* block of zero pixels, the zero pixels fillClosedRegions outputs as 255 are
\* exactly the pixels of the enclosed block, every zero pixel outside the
\* ring is output as 0, and the pixels of the ring themselves are output
\* as 255.
RingFillMarksRingAndEnclosedBlock ==
  pc = "maskSource" =>
    \A i \in DOMAIN sealedEdges :
      /\ sealedEdges[i] = 0 =>
           (filledRegions[i] = 255 <=> InsideRing(i))
      /\ (sealedEdges[i] = 0 /\ ~InsideRing(i)) => filledRegions[i] = 0
      /\ sealedEdges[i] # 0 => filledRegions[i] = 255

\* the fill of a 10 x 10 ring of thickness 3, with zero pixels on every side
\* of it, has returned with the 4 x 4 block marked
RingFillMarksRingAndEnclosedBlockWitness ==
  /\ pc = "maskSource"
  /\ sealedEdges = RingMask(width, height, 1, 10, 0, 9, 3)
  /\ Cardinality({i \in DOMAIN filledRegions :
                    filledRegions[i] = 255 /\ sealedEdges[i] = 0}) = 16
  /\ filledRegions[4 * width + 5] = 255
  /\ filledRegions[0] = 0 /\ filledRegions[10 * width + 11] = 0
  /\ head = 32

(***************************************************************************)
(* estimateWallColor (specification SpecWall)                              *)
(***************************************************************************)
\* the samples estimateWallColor takes from the crop, in the order it takes them
WallSamples ==
  LET points == SamplePoints(width, height)
      length == Length(data)
  IN Buffer([n \in 1 .. Len(points) |-> SampleAt(data, length, width, points[n])])

\* the samples among them that are not (128,128,128)
OutlierSamples(samples) == {n \in DOMAIN samples : samples[n] # <<128, 128, 128>>}

\* every sample is a pixel of the crop, and the samples that are not
\* (128,128,128) are all taken at one pixel, which is darker or brighter
OneOutlierSampled(samples) ==
  LET points == SamplePoints(width, height)
      out == OutlierSamples(samples)
  IN /\ \A n \in DOMAIN points :
          /\ points[n][1] >= 0 /\ points[n][1] < width
          /\ points[n][2] >= 0 /\ points[n][2] < height
     /\ \A n \in DOMAIN samples : SampleDefined(samples[n])
     /\ out # {}
     /\ \A m, n \in out : points[m] = points[n]
     /\ \A n \in out : samples[n][1] + samples[n][2] + samples[n][3] # 384

\* C12 as stated: for every crop whose sampled pixels are all (128,128,128)
\* except a single sampled pixel that is darker or brighter,
\* estimateWallColor returns (128,128,128).
OutlierNeverReturned ==
  (pc = "probe" /\ probe # None /\ OneOutlierSampled(WallSamples)) =>
    probe.out = <<128, 128, 128>>

\* C12: for every crop whose sampled pixels are all (128,128,128) except a
\* single sampled pixel that is darker or brighter, estimateWallColor returns
\* (128,128,128) provided fewer than half of the samples are taken at that
\* pixel.
MinorityOutlierNotReturned ==
  (pc = "probe" /\ probe # None) =>
    LET samples == WallSamples
    IN (/\ OneOutlierSampled(samples)
        /\ 2 * Cardinality(OutlierSamples(samples)) < Len(samples)) =>
         probe.out = <<128, 128, 128>>

\* estimateWallColor has returned (128,128,128) for a 4 x 4 crop in which two
\* of the eight samples are taken at a white pixel
MinorityOutlierNotReturnedWitness ==
  /\ pc = "probe" /\ probe # None
  /\ width = 4 /\ height = 4
  /\ OneOutlierSampled(WallSamples)
  /\ Len(WallSamples) = 8
  /\ Cardinality(OutlierSamples(WallSamples)) = 2
  /\ \E n \in OutlierSamples(WallSamples) : WallSamples[n] = <<255, 255, 255>>
  /\ probe.out = <<128, 128, 128>>

(***************************************************************************)
(* The channels of the raster returned (specification Spec)                *)
(***************************************************************************)
\* C13: at every pixel of the raster buildOcclusionMask returns, the bytes R,
\* G, B and A are equal, so reading the R channel gives the value of alpha.
ChannelsEqual ==
  pc = "done" =>
    \A i \in 0 .. result.width * result.height - 1 :
      \A c \in 0 .. 2 : result.data[4 * i + c] = result.data[4 * i + 3]

\* an invocation has returned a mask with a pixel whose four bytes are 255
ChannelsEqualWitness ==
  /\ pc = "done"
  /\ width >= 1 /\ height >= 1
  /\ \E i \in 0 .. pixelCount - 1 : \A c \in 0 .. 3 : result.data[4 * i + c] = 255

(***************************************************************************)
(* The effect of TilePreview (specification SpecEffect)                    *)
(***************************************************************************)
\* C14: if a stage of buildOcclusionMask raises, the effect of TilePreview
\* absorbs the error: the exception does not leave the effect, and the
\* effect ends with the occlusion texture state null and the texture held
\* before disposed of.
MaskErrorAbsorbed ==
  (effect.thrown \in MaskStages /\ effect.pc \in {"returned", "cleaned"}) =>
    /\ ~effect.escaped
    /\ effect.logged
    /\ effect.occlusionTexture = NoTexture
    /\ effect.held # NoTexture => effect.held \in effect.disposed

\* the flood fill raised while a texture was held; the effect has returned
\* with the state null and that texture disposed of
MaskErrorAbsorbedWitness ==
  /\ effect.pc = "returned"
  /\ effect.thrown = "fill"
  /\ effect.held = "previous"
  /\ effect.occlusionTexture = NoTexture
  /\ effect.disposed = {"previous"}
  /\ sealedEdges # None /\ filledRegions = None

(***************************************************************************)
(* fillClosedRegions and border connectivity (specification SpecFillCall)  *)
(***************************************************************************)
\* the zero pixels of the mask, and those of them on one of the four borders
ZeroPixels == {i \in DOMAIN sealedEdges : sealedEdges[i] = 0}
BorderZeroPixels ==
  {i \in ZeroPixels : \/ i % width = 0 \/ i % width = width - 1
                      \/ i \div width = 0 \/ i \div width = height - 1}

\* pixels i and j are 4-connected neighbours
Adjacent(i, j) ==
  \/ i \div width = j \div width /\ Abs((i % width) - (j % width)) = 1
  \/ i % width = j % width /\ Abs((i \div width) - (j \div width)) = 1

\* the zero pixels joined to a pixel of set by a 4-connected path of zero pixels
RECURSIVE JoinedTo(_)
JoinedTo(set) ==
  LET more == set \cup {j \in ZeroPixels : \E i \in set : Adjacent(i, j)}
  IN IF more = set THEN set ELSE JoinedTo(more)

\* C15: for every mask, fillClosedRegions outputs 0 at a zero pixel iff a
\* 4-connected path of zero pixels joins it to a zero pixel on one of the
\* four borders; every other zero pixel is output as 255.
FillInvertsBorderReachability ==
  pc = "maskSource" =>
    LET open == JoinedTo(BorderZeroPixels)
    IN \A i \in ZeroPixels :
         /\ filledRegions[i] = 0 <=> i \in open
         /\ i \notin open => filledRegions[i] = 255

\* the fill of a 3 x 4 mask has returned; two enclosed zero pixels, which
\* touch a zero corner only diagonally, are output as 255 and the corner as 0
FillInvertsBorderReachabilityWitness ==
  /\ pc = "maskSource"
  /\ width = 3 /\ height = 4
  /\ ZeroPixels = {0, 4, 7}
  /\ filledRegions[0] = 0
  /\ filledRegions[4] = 255 /\ filledRegions[7] = 255

(***************************************************************************)
(* The worklist of fillClosedRegions (specification SpecFill)              *)
(***************************************************************************)
\* fillClosedRegions has allocated its locals
FillRunning == pc \in {"seedX", "seedY", "loop", "maskSource"}

\* C16: in every state of fillClosedRegions, each pixel index has been
\* written to the worklist at most once, only zero pixels have been
\* enqueued, and 0 <= head <= tail <= width*height, the length of the
\* queue, which is therefore never overrun.
WorklistBounded ==
  FillRunning =>
    /\ 0 <= head /\ head <= tail /\ tail <= width * height
    /\ Length(queue) = width * height
    /\ \A a, b \in 0 .. tail - 1 : a # b => queue[a] # queue[b]
    /\ \A a \in 0 .. tail - 1 :
         /\ queue[a] \in 0 .. width * height - 1
         /\ sealedEdges[queue[a]] = 0

\* the loop is under way on the all-zero 3 x 3 mask, whose corners are
\* offered twice by the seeding loops, and the queue is full
WorklistBoundedWitness ==
  /\ pc = "loop"
  /\ width = 3 /\ height = 3
  /\ \A i \in DOMAIN sealedEdges : sealedEdges[i] = 0
  /\ head = 4 /\ tail = 9
  /\ queue[8] = 4

(***************************************************************************)
(* Termination of fillClosedRegions (specification SpecFillFair)           *)
(***************************************************************************)
\* C17: fillClosedRegions terminates on every raster: the worklist loop
\* reaches head = tail and the call returns, after at most width*height
\* dequeues.
FillTerminates ==
  <>(pc = "maskSource" /\ head = tail /\ head <= width * height)

\* the fill of the all-zero 2 x 4 mask has returned after 8 dequeues
FillTerminatesWitness ==
  /\ pc = "maskSource"
  /\ width = 2 /\ height = 4
  /\ head = 8 /\ tail = 8

(***************************************************************************)
(* Worklist order (specification SpecFillAnyOrder)                         *)
(***************************************************************************)
\* C18: the output of the border flood fill does not depend on worklist
\* order: with the border pixels offered in any order, the entries removed
\* in any order and the neighbours offered in any order, the visited set
\* and the output mask are those of fillClosedRegions (first in, first
\* out, in the order of the code).
OrderDoesNotMatter ==
  pc = "maskSource" =>
    LET st == FillRun(NewVisited(pixelCount), NewQueue(pixelCount),
                      sealedEdges, width, height)
    IN /\ visited = st.visited
       /\ filledRegions = FillOutput(st.visited, pixelCount)
       /\ head = st.head

\* the fill in free order of a 3 x 3 mask with a single zero border pixel,
\* through which the centre is reached, has returned the output of
\* fillClosedRegions
OrderDoesNotMatterWitness ==
  /\ pc = "maskSource"
  /\ width = 3 /\ height = 3
  /\ {i \in DOMAIN sealedEdges : sealedEdges[i] = 0} = {1, 4}
  /\ filledRegions[1] = 0 /\ filledRegions[4] = 0
  /\ head = 2

(***************************************************************************)
(* dilate against the full scan (specification SpecProbe)                  *)
(***************************************************************************)
\* the greatest value of the mask over the (2r+1) x (2r+1) neighbourhood of
\* (x, y), the coordinates clamped to the raster: the scan without early exit
NeighbourhoodMax(source, w, h, r, x, y) ==
  LET values == {source[clamp(y + ky, 0, h - 1) * w + clamp(x + kx, 0, w - 1)] :
                   ky \in -r .. r, kx \in -r .. r}
  IN CHOOSE m \in values : \A v \in values : v <= m

\* C19: for every raster mask with values in 0..255 and every radius r >= 1,
\* each output pixel of dilate is the maximum of the input over the
\* (2r+1) x (2r+1) neighbourhood with coordinates clamped to the raster edge;
\* the early exit on reaching 255 does not change the result of the full scan.
DilateIsNeighbourhoodMax ==
  (pc = "probe" /\ IsRaster(probe)) =>
    \A k \in DOMAIN probe.made :
      (probe.made[k].fn = "dilate" /\ probe.made[k].radius >= 1) =>
        /\ DOMAIN probe.made[k].out = DOMAIN probe.source
        /\ \A i \in DOMAIN probe.source :
             probe.made[k].out[i] =
               NeighbourhoodMax(probe.source, probe.width, probe.height,
                                probe.made[k].radius, i % probe.width, i \div probe.width)

\* a 3 x 2 raster has been dilated with radius 1: the scan left early at the
\* pixel that has 255 in its neighbourhood and ran to its end at the pixel
\* whose neighbourhood maximum is 90
DilateIsNeighbourhoodMaxWitness ==
  /\ pc = "probe"
  /\ IsRaster(probe)
  /\ probe.width = 3 /\ probe.height = 2
  /\ Len(probe.made) = 1
  /\ probe.made[1].fn = "dilate" /\ probe.made[1].radius = 1
  /\ probe.source[0] = 255
  /\ probe.made[1].out[0] = 255
  /\ probe.made[1].out[2] = 90

(***************************************************************************)
(* The edge threshold (specification SpecEdges)                            *)
(***************************************************************************)
\* the mean of the normalized gradient: the sum over the pixel count
EdgeMean == SumFn(normalizedEdges, 0, pixelCount - 1) \div pixelCount

\* its population variance: the mean of the squared deviations from the mean
EdgeVariance ==
  SumFn([i \in 0 .. pixelCount - 1 |->
           ((normalizedEdges[i] - EdgeMean) * (normalizedEdges[i] - EdgeMean))
             \div pixelCount],
        0, pixelCount - 1)

\* t is mean + standard deviation clamped to [lo, hi]: between the bounds it
\* is the mean plus the root of the variance; at a bound the sum is at or
\* beyond it
ClampedMeanPlusDeviation(t, lo, hi) ==
  /\ lo <= t /\ t <= hi
  /\ (lo < t /\ t < hi) =>
       /\ t >= EdgeMean
       /\ (t - EdgeMean) * (t - EdgeMean) <= EdgeVariance
       /\ EdgeVariance < (t - EdgeMean + 1) * (t - EdgeMean + 1)
  /\ t = lo =>
       /\ EdgeMean <= lo
       /\ EdgeVariance < (lo - EdgeMean + 1) * (lo - EdgeMean + 1)
  /\ t = hi =>
       \/ EdgeMean >= hi
       \/ EdgeVariance >= (hi - EdgeMean) * (hi - EdgeMean)

\* C20: for every non-degenerate input, the edge threshold equals
\* clamp(mean + population standard deviation of the normalized gradient,
\* 35, 180), so it lies in [35,180]; a pixel of the binary edge mask is 255
\* iff its normalized gradient is >= the threshold, and 0 otherwise.
ThresholdClampedAndApplied ==
  /\ normalizedEdges # None =>
       ClampedMeanPlusDeviation(threshold, 35 * NormScale, 180 * NormScale)
  /\ binaryEdges # None =>
       \A i \in 0 .. pixelCount - 1 :
         /\ binaryEdges[i] \in {0, 255}
         /\ binaryEdges[i] = 255 <=> normalizedEdges[i] >= threshold

\* the binary edge mask of a 5 x 4 raster has been made with the threshold
\* clamped down to 180; it has pixels of both values
ThresholdClampedAndAppliedWitness ==
  /\ pc = "seal"
  /\ width = 5 /\ height = 4
  /\ threshold = 180 * NormScale
  /\ EdgeMean < 180 * NormScale
  /\ \E i \in DOMAIN binaryEdges : binaryEdges[i] = 255
  /\ \E i \in DOMAIN binaryEdges : binaryEdges[i] = 0

(***************************************************************************)
(* The flat image (specification Spec)                                     *)
(***************************************************************************)
\* buf is a mask of n pixels, all zero
ZeroMask(buf, n) == DOMAIN buf = 0 .. n - 1 /\ \A i \in 0 .. n - 1 : buf[i] = 0

\* buf is a mask of n pixels, all of them bytes
ByteMask(buf, n) == DOMAIN buf = 0 .. n - 1 /\ \A i \in 0 .. n - 1 : buf[i] \in 0 .. 255

\* C21: when the maximum gradient magnitude is 0, no division by zero or NaN
\* occurs: the normalized edge mask and the binary edge mask are all-zero,
\* and every downstream stage (dilate, fill, blur, fusion) runs on the
\* all-zero mask: each yields its mask, all-zero up to the gate, and the
\* invocation returns.
FlatGradientGivesZeroEdgeMasks ==
  (width >= 1 /\ height >= 1 /\ sobelMagnitude # None /\ maxMagnitude = 0) =>
    /\ pc \in {"binary", "seal", "fill", "maskSource", "edgeDilate", "edgeBlur",
               "regionDilate", "regionSoft", "combine", "output", "done"} =>
         /\ ZeroMask(normalizedEdges, pixelCount)
         /\ threshold \in 35 * NormScale .. 180 * NormScale
    /\ pc \in {"seal", "fill", "maskSource", "edgeDilate", "edgeBlur",
               "regionDilate", "regionSoft", "combine", "output", "done"} =>
         ZeroMask(binaryEdges, pixelCount)
    /\ pc \in {"fill", "maskSource", "edgeDilate", "edgeBlur",
               "regionDilate", "regionSoft", "combine", "output", "done"} =>
         ZeroMask(sealedEdges, pixelCount)
    /\ pc \in {"maskSource", "edgeDilate", "edgeBlur",
               "regionDilate", "regionSoft", "combine", "output", "done"} =>
         /\ ZeroMask(filledRegions, pixelCount)
         /\ head = pixelCount /\ tail = pixelCount
    /\ pc \in {"edgeDilate", "edgeBlur", "regionDilate", "regionSoft", "combine",
               "output", "done"} =>
         ZeroMask(maskSource, pixelCount)
    /\ pc \in {"edgeBlur", "regionDilate", "regionSoft", "combine", "output", "done"} =>
         ZeroMask(edgeDilated, pixelCount)
    /\ pc \in {"regionDilate", "regionSoft", "combine", "output", "done"} =>
         ZeroMask(edgeBlurred, pixelCount)
    /\ pc \in {"regionSoft", "combine", "output", "done"} =>
         ZeroMask(objectRegionDilated, pixelCount)
    /\ pc \in {"combine", "output", "done"} =>
         ZeroMask(objectRegionSoft, pixelCount)
    /\ pc \in {"output", "done"} => ByteMask(combined, pixelCount)
    /\ pc = "done" => ByteMask(result.data, 4 * pixelCount)

\* an invocation on a 3 x 3 raster of one colour, whose one interior pixel
\* has gradient 0, has returned
FlatGradientGivesZeroEdgeMasksWitness ==
  /\ pc = "done"
  /\ width = 3 /\ height = 3
  /\ UniformInput
  /\ maxMagnitude = 0
  /\ ZeroMask(normalizedEdges, 9)
  /\ ZeroMask(edgeBlurred, 9)
  /\ ByteMask(result.data, 36)

(***************************************************************************)
(* The border of the edge masks (specification SpecEdges)                  *)
(***************************************************************************)
\* pixel i lies in the outermost row or column
OnBorder(i) ==
  \/ i % width = 0 \/ i % width = width - 1
  \/ i \div width = 0 \/ i \div width = height - 1

\* C22: for every input, the gradient magnitude is 0 at every pixel of the
\* outermost row and column, so the binary edge mask is never 255 on the
\* image border; for an input with width <= 2 or height <= 2 there is no
\* interior pixel and the binary edge mask is all-zero.
BorderHasNoEdges ==
  /\ sobelMagnitude # None =>
       \A i \in 0 .. pixelCount - 1 : OnBorder(i) => sobelMagnitude[i] = 0
  /\ binaryEdges # None =>
       /\ \A i \in 0 .. pixelCount - 1 : OnBorder(i) => binaryEdges[i] # 255
       /\ (width <= 2 \/ height <= 2) =>
            /\ \A i \in 0 .. pixelCount - 1 : OnBorder(i)
            /\ \A i \in 0 .. pixelCount - 1 : binaryEdges[i] = 0

\* the binary edge mask of a 4 x 3 raster with an object in its left half
\* has been made: it is 255 at an interior pixel and 0 all along the border
BorderHasNoEdgesWitness ==
  /\ pc = "seal"
  /\ width = 4 /\ height = 3
  /\ data[0] # data[12]
  /\ \E i \in 0 .. pixelCount - 1 : ~OnBorder(i) /\ binaryEdges[i] = 255
  /\ \A i \in 0 .. pixelCount - 1 : OnBorder(i) => binaryEdges[i] = 0

(***************************************************************************)
(* The colour mask (specification SpecColor)                               *)
(***************************************************************************)
\* C23: buildColorDistanceMask outputs 255 at a pixel iff the Euclidean RGB
\* distance between that pixel and the estimated wall colour is >= 58
\* (equivalently dr^2 + dg^2 + db^2 >= 3364), and 0 otherwise; no other
\* values occur.  (A wall colour with an undefined channel has no distance
\* to any pixel.)
ColorMaskIsDistanceTest ==
  colorMask # None =>
    LET wall == estimateWallColor(data, width, height)
    IN /\ DOMAIN colorMask = 0 .. pixelCount - 1
       /\ \A i \in 0 .. pixelCount - 1 :
            LET dr == data[4 * i] - wall[1]
                dg == data[4 * i + 1] - wall[2]
                db == data[4 * i + 2] - wall[3]
            IN /\ colorMask[i] \in {0, 255}
               /\ colorMask[i] = 255 <=>
                    /\ SampleDefined(wall)
                    /\ dr * dr + dg * dg + db * db >= 3364

\* the colour mask of a raster whose wall colour is (100,100,100) has been
\* made: it is 255 at a pixel of (142,140,100), at a distance of 58 exactly,
\* and 0 at a pixel of the wall colour
ColorMaskIsDistanceTestWitness ==
  /\ pc = "colorDilate"
  /\ estimateWallColor(data, width, height) = <<100, 100, 100>>
  /\ \E i \in 0 .. pixelCount - 1 :
       /\ data[4 * i] = 142 /\ data[4 * i + 1] = 140 /\ data[4 * i + 2] = 100
       /\ colorMask[i] = 255
  /\ \E i \in 0 .. pixelCount - 1 :
       /\ data[4 * i] = 100 /\ data[4 * i + 1] = 100 /\ data[4 * i + 2] = 100
       /\ colorMask[i] = 0

(***************************************************************************)
(* The fusion (specification SpecCombine)                                  *)
(***************************************************************************)
\* C24: at every pixel the fused pre-gamma value equals max(edge mask, gated
\* colour) with gated colour = colour mask * gate / 255 (as the integer it is
\* stored as, which is less than 1 away from the quotient); hence it is
\* never below the blurred edge mask value and never above max(blurred edge
\* mask value, blurred colour mask value) at that pixel.
FusedIsMaxOfEdgeAndGatedColour ==
  combined # None =>
    \A i \in 0 .. pixelCount - 1 :
      /\ \E gated \in 0 .. 255 :
           /\ 255 * gated > colorBlurred[i] * objectRegionSoft[i] - 255
           /\ 255 * gated < colorBlurred[i] * objectRegionSoft[i] + 255
           /\ combined[i] = Max(edgeBlurred[i], gated)
      /\ combined[i] >= edgeBlurred[i]
      /\ combined[i] <= Max(edgeBlurred[i], colorBlurred[i])

\* a pixel has been fused whose gated colour, 200 * 128 / 255 = 100.4, is
\* above its edge value, 64, and below its colour value
FusedIsMaxOfEdgeAndGatedColourWitness ==
  /\ pc = "output"
  /\ edgeBlurred[0] = 64 /\ colorBlurred[0] = 200 /\ objectRegionSoft[0] = 128
  /\ combined[0] = 100

\* C25 as stated: the gated colour contribution colour * gate / 255 is
\* converted to an integer by truncation (floor), for every pair of colour
\* and gate values in 0..255.
GatedColourTruncated ==
  (combined # None /\ edgeBlurred[0] = 0) =>
    combined[0] = (colorBlurred[0] * objectRegionSoft[0]) \div 255

\* C25: the gated colour contribution colour * gate / 255 is converted to an
\* integer by rounding to the nearest integer (the quotient is never half
\* way between two integers), for every pair of colour and gate values in
\* 0..255.
GatedColourRounded ==
  (combined # None /\ edgeBlurred[0] = 0) =>
    /\ 2 * 255 * combined[0] > 2 * colorBlurred[0] * objectRegionSoft[0] - 255
    /\ 2 * 255 * combined[0] < 2 * colorBlurred[0] * objectRegionSoft[0] + 255

\* a pixel with no edge value has been fused whose gated colour,
\* 128 * 1 / 255 = 0.502, was stored as 1
GatedColourRoundedWitness ==
  /\ pc = "output"
  /\ edgeBlurred[0] = 0 /\ colorBlurred[0] = 128 /\ objectRegionSoft[0] = 1
  /\ combined[0] = 1

(***************************************************************************)
(* The gate (specification SpecGate)                                       *)
(***************************************************************************)
\* the Chebyshev distance of pixels i and j
Chebyshev(i, j) ==
  Max(Abs((i % width) - (j % width)), Abs((i \div width) - (j \div width)))

\* pixel i is more than 18 pixels away from every non-zero pixel of maskSource
FarFromMaskSource(i) ==
  \A j \in 0 .. pixelCount - 1 : maskSource[j] # 0 => Chebyshev(i, j) > 18

\* C26: colour detections far from edge-detected regions are suppressed: at
\* any pixel whose Chebyshev distance to every non-zero pixel of maskSource
\* exceeds 18 (gate dilation radius 10 + gate blur radius 8) the final mask
\* value is 0 whatever the colour mask is there; if maskSource is all-zero
\* the final mask is all-zero.
FarColourSuppressed ==
  pc = "done" =>
    /\ \A i \in 0 .. pixelCount - 1 :
         FarFromMaskSource(i) =>
           \A c \in 0 .. 3 : result.data[4 * i + c] = 0
    /\ (\A j \in 0 .. pixelCount - 1 : maskSource[j] = 0) =>
         \A k \in DOMAIN result.data : result.data[k] = 0

\* an invocation has returned whose maskSource is non-zero about the object
\* and whose colour mask is 255 at a pixel more than 18 pixels from there:
\* the mask returned is 0 at that pixel and 255 at the object
FarColourSuppressedWitness ==
  /\ pc = "done"
  /\ height = 3
  /\ maskSource[1] # 0
  /\ \E i \in 0 .. pixelCount - 1 :
       /\ FarFromMaskSource(i)
       /\ colorMask[i] = 255 /\ colorBlurred[i] > 0
       /\ result.data[4 * i + 3] = 0
  /\ result.data[4 * 1 + 3] = 255

(***************************************************************************)
(* Buffers handed to a stage (specification SpecHeap)                      *)
(***************************************************************************)
\* C27: no stage modifies a buffer it receives: buildOcclusionMask leaves
\* the input raster's bytes unchanged, and dilate, gaussianBlur and
\* fillClosedRegions return a newly allocated buffer (also for radius 0,
\* where the result is a copy and not an alias) and leave their source
\* unchanged.
BuffersNotModified ==
  /\ pc # "probe" => data = probe.input
  /\ pc = "probe" =>
       \A k \in DOMAIN probe.made :
         LET call == probe.made[k]
         IN /\ call.out \in Len(call.pre) + 1 .. Len(probe.heap)
            /\ call.out # call.source
            /\ DOMAIN probe.heap[call.out] = DOMAIN call.pre[call.source]
            /\ \A b \in 1 .. Len(call.pre) : probe.heap[b] = call.pre[b]
            /\ call.radius = 0 /\ call.fn # "fillClosedRegions" =>
                 probe.heap[call.out] = call.pre[call.source]

\* a 2 x 2 mask has been dilated with radius 0, which gave a second buffer
\* with the same values, and the copy has been handed to fillClosedRegions,
\* which gave a fifth buffer; the first mask is as it was
BuffersNotModifiedWitness ==
  /\ pc = "probe"
  /\ probe.width = 2 /\ probe.height = 2
  /\ Len(probe.made) = 2
  /\ probe.made[1].fn = "dilate" /\ probe.made[1].radius = 0
  /\ probe.made[1].source = 1 /\ probe.made[1].out = 2
  /\ probe.made[2].fn = "fillClosedRegions"
  /\ probe.made[2].source = 2 /\ probe.made[2].out = 5
  /\ probe.heap[1] = probe.heap[2]
  /\ probe.heap[1][0] = 255 /\ probe.heap[1][3] = 0
  /\ probe.heap[5][0] = 255 /\ probe.heap[5][3] = 0

(***************************************************************************)
(* The positions estimateWallColor reads (specification SpecWall)          *)
(***************************************************************************)
\* C28 as stated: for every width >= 1 and height >= 1, every pixel
\* position (x, y) that estimateWallColor reads satisfies 0 <= x < width and
\* 0 <= y < height, so it never reads outside the RGBA buffer and every
\* collected sample is a triple of defined bytes.
SamplesReadInsideCrop ==
  (pc = "probe" /\ probe # None /\ width >= 1 /\ height >= 1) =>
    LET points == SamplePoints(width, height)
        samples == WallSamples
    IN /\ \A n \in DOMAIN points :
            /\ points[n][1] >= 0 /\ points[n][1] < width
            /\ points[n][2] >= 0 /\ points[n][2] < height
            /\ (points[n][2] * width + points[n][1]) * 4 + 2 < Length(data)
       /\ \A n \in DOMAIN samples : SampleDefined(samples[n])
       /\ SampleDefined(probe.out)

(***************************************************************************)
(* The strongest edge (specification SpecEdges)                            *)
(***************************************************************************)
\* C29: whenever at least one interior pixel has non-zero gradient
\* magnitude, the binary edge mask contains at least one 255 pixel: the
\* pixel of maximum magnitude normalizes to 255, which is >= any threshold
\* in [35,180]; so the binary edge mask is all-zero iff the maximum gradient
\* magnitude is 0.
StrongestEdgeIsKept ==
  binaryEdges # None =>
    /\ (\E i \in 0 .. pixelCount - 1 : ~OnBorder(i) /\ sobelMagnitude[i] # 0) =>
         /\ \E i \in 0 .. pixelCount - 1 : binaryEdges[i] = 255
         /\ \A i \in 0 .. pixelCount - 1 :
              sobelMagnitude[i] = maxMagnitude =>
                /\ normalizedEdges[i] = 255 * NormScale
                /\ binaryEdges[i] = 255
    /\ (\A i \in 0 .. pixelCount - 1 : binaryEdges[i] = 0) <=> maxMagnitude = 0

\* the binary edge mask of a 5 x 5 raster has been made: the pixel of
\* maximum magnitude is 255 in it, and a pixel of smaller, non-zero
\* magnitude is 0
StrongestEdgeIsKeptWitness ==
  /\ pc = "seal"
  /\ width = 5 /\ height = 5
  /\ maxMagnitude > 0
  /\ \E i \in 0 .. pixelCount - 1 :
       sobelMagnitude[i] = maxMagnitude /\ binaryEdges[i] = 255
  /\ \E i \in 0 .. pixelCount - 1 :
       sobelMagnitude[i] > 0 /\ binaryEdges[i] = 0

(***************************************************************************)
(* The fill and its source (specification SpecFillSource)                  *)
(***************************************************************************)
\* C30: for every input mask, fillClosedRegions outputs 255 at every pixel
\* whose input value is non-zero, so its output is pixel-wise >= a binary
\* (0/255) input and maskSource = max(sealedEdges, filledRegions) is equal
\* to filledRegions at every pixel.
FillCoversItsSource ==
  /\ filledRegions # None =>
       /\ DOMAIN filledRegions = 0 .. pixelCount - 1
       /\ \A i \in 0 .. pixelCount - 1 :
            /\ sealedEdges[i] # 0 => filledRegions[i] = 255
            /\ sealedEdges[i] \in {0, 255} => filledRegions[i] >= sealedEdges[i]
  /\ maskSource # None =>
       /\ DOMAIN maskSource = 0 .. pixelCount - 1
       /\ \A i \in 0 .. pixelCount - 1 : maskSource[i] = filledRegions[i]

\* maskSource has been made for a 3 x 3 mask of 255 with zero at its centre
\* and at a corner: the fill gave 255 at the centre, which is enclosed, and
\* 0 at the corner, and maskSource is the fill's output
FillCoversItsSourceWitness ==
  /\ pc = "edgeDilate"
  /\ width = 3 /\ height = 3
  /\ \A i \in 0 .. 8 : sealedEdges[i] = (IF i \in {0, 4} THEN 0 ELSE 255)
  /\ filledRegions[4] = 255 /\ filledRegions[0] = 0
  /\ maskSource = filledRegions

=============================================================================
